---- MODULE Spec2Model ----
(***************************************************************************)
(* The smart-factory predictive-maintenance pipeline: four MQTT services   *)
(* (context_processor, predictive_maintenance_agent, action_executor,      *)
(* performance_monitor), each a single-threaded on_message handler, and    *)
(* the topic bus between them.                                             *)
(*                                                                         *)
(* Conventions of the model                                                *)
(*  - a JSON document is a record; a key that is absent from the document  *)
(*    holds NoVal; form says whether the payload parsed to a JSON object;  *)
(*  - sensor values are integers in hundredths (35.5 is 3550), so an       *)
(*    average is the exact fraction sum/len, kept as <<sum, len>>;         *)
(*  - time is in whole minutes; datetime.now() is the variable now;        *)
(*  - str(uuid.uuid4()) is the fresh number nextId;                        *)
(*  - a topic is the pair (prefix, suffix) of the source's f-string;       *)
(*  - bus is the set of messages published so far: the broker may deliver  *)
(*    any of them to a subscriber any number of times, or never;           *)
(*  - last records what the most recent handler run did: the message it    *)
(*    was given, its validate_message calls, its log records, its          *)
(*    predictor calls, its simulated actions and what it published;        *)
(*  - service is each process's position: starting (main has not loaded    *)
(*    its files), aborted, loaded, refused (the broker refused the         *)
(*    connection), running (connected and subscribed) or crashed (an       *)
(*    exception left a callback), with the files it has not loaded and     *)
(*    the topic filters it has subscribed to;                              *)
(*  - retained is the broker's retained message of                         *)
(*    agent/discovery/heartbeat, which a later subscriber is given;        *)
(*  - callbacks is the frame of each thread that runs the context          *)
(*    processor's on_message (paho's network loop is the only one): idle,  *)
(*    or inside process_raw_data with the reading it was given;            *)
(*  - inbox is what the broker has queued for each service and not yet     *)
(*    handed to its on_message; a specification that lets the broker       *)
(*    deliver any published message at any time leaves it empty.           *)
(***************************************************************************)
EXTENDS Integers, Sequences, FiniteSets, TLC

VARIABLES now, nextId, DATA_BUFFERS, recent_contexts, bus, last, service, retained,
          callbacks, inbox

vars == <<now, nextId, DATA_BUFFERS, recent_contexts, bus, last, service, retained,
          callbacks, inbox>>

-----------------------------------------------------------------------------
(* Bounds of the model *)

\* the clock stops here
MaxTime == 4
\* number of uuid4 identifiers the services may draw
MaxIds == 3

-----------------------------------------------------------------------------
(* Constants of the program *)

NoVal == "<absent>"

MACHINE_IDS == {"CNC001", "ROBOT001"}

RAW_DATA_TOPIC_PREFIX == "raw_data/machine_sensors/"
PROCESSED_CONTEXT_TOPIC_PREFIX == "context/machine_status/"
DECISION_TOPIC_PREFIX == "decision/maintenance/"
DECISION_SUBSCRIBE_PREFIX == "decision/"
SIMULATED_ACTION_TOPIC_PREFIX == "simulated_actions/"
AGENT_DISCOVERY_TOPIC == "agent/discovery/heartbeat"

\* the four services
STAGES ==
  {"context_processor", "predictive_maintenance_agent", "action_executor",
   "performance_monitor"}

CONTEXT_AGENT_ID == "context_modeling_engine_001"
DECISION_AGENT_ID == "predictive_maintenance_agent_001"
ACTION_AGENT_ID == "action_executor_001"

CONTEXT_SCHEMA_VERSION == "1.0.0"
SUPPORTED_CONTEXT_SCHEMA_VERSION == "1.0.0"
DECISION_SCHEMA_VERSION == "1.0.0"
SUPPORTED_DECISION_SCHEMA_VERSION == "1.0.0"
ACTION_CONFIRMATION_SCHEMA_VERSION == "1.0.0"

\* deque(maxlen=300)
BUFFER_MAXLEN == 300
\* timedelta(minutes=5), (minutes=1), (minutes=10)
WINDOW_TEMPERATURE == 5
WINDOW_VIBRATION == 1
WINDOW_POWER == 10
\* avg_temperature_c_5min > 70, in hundredths
TEMPERATURE_THRESHOLD == 7000
\* max_vibration_g_1min > 3.0, in hundredths
VIBRATION_THRESHOLD == 300
CONTEXT_TTL_SECONDS == 60
DECISION_TTL_SECONDS == 30
CONFIRMATION_TTL_SECONDS == 30

-----------------------------------------------------------------------------
(* Documents, topics and the record of a handler run *)

\* every message of a stage on one topic, whatever its machine
Topic_Flat(prefix, suffix) == [prefix |-> prefix, suffix |-> ""]

Topic(prefix, suffix) == [prefix |-> prefix, suffix |-> suffix]

Message(topic, body) == [topic |-> topic, body |-> body]

\* Python truthiness of a string-valued key read with .get(): None and ""
\* are falsy
Truthy(x) == x \notin {NoVal, ""}

\* Payloads that json.loads() rejects, and payloads that parse to a JSON
\* value that is not an object (.get raises AttributeError)
GarbageBody == [form |-> "garbage"]
NonObjectBody == [form |-> "nonobject"]

NoRun ==
  [stage |-> "none", inbound |-> GarbageBody, validated |-> <<>>, log |-> <<>>,
   predicted |-> <<>>, simulated |-> <<>>, out |-> <<>>]

\* One handler run: its stage, the payload it was given, its calls of
\* validate_message, the levels of its log records, its predictor calls,
\* its simulated actions and the messages it published, each in order
Run(stage, body, validated, log, predicted, simulated, out) ==
  [stage |-> stage, inbound |-> body, validated |-> validated, log |-> log,
   predicted |-> predicted, simulated |-> simulated, out |-> out]

Validation(schema, message, ok) == [schema |-> schema, message |-> message, ok |-> ok]

RECURSIVE SeqSum(_)
SeqSum(s) == IF s = <<>> THEN 0 ELSE Head(s) + SeqSum(Tail(s))

RECURSIVE SeqMax(_)
SeqMax(s) == IF Len(s) = 1 THEN s[1]
             ELSE LET m == SeqMax(Tail(s)) IN IF Head(s) > m THEN Head(s) ELSE m

Range(s) == {s[i] : i \in DOMAIN s}

CountOf(s, x) == Cardinality({i \in 1..Len(s) : s[i] = x})

-----------------------------------------------------------------------------
(* Contract registry: the JSON schemas under schemas/ and jsonschema.validate *)

STATUS_ENUM == {"running", "idle", "error", "maintenance"}
PRIORITY_ENUM == {"low", "normal", "high", "critical"}
ACTION_TAKEN_ENUM == {"maintenance_initiated", "no_action_taken"}
CONFIRMATION_STATUS_ENUM == {"success", "failure"}
HEARTBEAT_STATUS_ENUM == {"online", "degraded", "offline"}

\* The version strings of the model that are semantic versions
\* (major.minor.patch); "1.0" is not one
SemVer == {"1.0.0", "2.0.0"}

raw_schema(m) ==
  /\ m.form = "object"
  /\ m.machine_id # NoVal
  /\ m.status \in STATUS_ENUM

context_schema(m) ==
  /\ m.form = "object"
  /\ m.context_type = "machine_status_context"
  /\ m.schema_version \in SemVer
  /\ m.payload.machine_id # NoVal
  /\ m.payload.current_status \in STATUS_ENUM
  /\ m.payload.is_anomaly_detected \in BOOLEAN
  /\ m.metadata.priority \in PRIORITY_ENUM
  /\ m.metadata.ttl_seconds >= 0

decision_schema(m) ==
  /\ m.form = "object"
  /\ m.decision_type # NoVal
  /\ m.schema_version \in SemVer
  /\ m.payload.machine_id # NoVal
  /\ m.payload.needs_maintenance \in BOOLEAN
  /\ m.metadata.priority \in PRIORITY_ENUM
  /\ m.metadata.ttl_seconds >= 0

action_confirmation_schema(m) ==
  /\ m.form = "object"
  /\ m.confirmation_type = "action_confirmation"
  /\ m.schema_version \in SemVer
  /\ m.payload.machine_id # NoVal
  /\ m.payload.action_taken \in ACTION_TAKEN_ENUM
  /\ m.payload.status \in CONFIRMATION_STATUS_ENUM
  /\ m.metadata.priority \in PRIORITY_ENUM
  /\ m.metadata.ttl_seconds >= 0

agent_heartbeat_schema(m) ==
  /\ m.form = "object"
  /\ m.agent_id # NoVal
  /\ m.status \in HEARTBEAT_STATUS_ENUM

\* validate_message(message, schema): True iff jsonschema.validate accepts
validate_message(message, schema) ==
  CASE schema = "raw_schema" -> raw_schema(message)
    [] schema = "context_schema" -> context_schema(message)
    [] schema = "decision_schema" -> decision_schema(message)
    [] schema = "action_confirmation_schema" -> action_confirmation_schema(message)
    [] schema = "agent_heartbeat_schema" -> agent_heartbeat_schema(message)

\* the log records validate_message writes: a warning when validation fails
validate_log(message, schema) ==
  IF validate_message(message, schema) THEN <<>> ELSE <<"warning">>

\* a failed outbound validation that leaves only validate_message's warning
OutboundGate_Quiet(topic, message, schema) ==
  IF ~validate_message(message, schema) THEN
    [validated |-> <<Validation(schema, message, FALSE)>>,
     log |-> validate_log(message, schema),
     out |-> <<>>]
  ELSE
    [validated |-> <<Validation(schema, message, TRUE)>>,
     log |-> <<"info">>,
     out |-> <<Message(topic, message)>>]

\* the gate with its validation left out: the message is published as built
OutboundGate_Unvalidated(topic, message, schema) ==
  [validated |-> <<>>, log |-> <<"info">>, out |-> <<Message(topic, message)>>]

\* the message published twice
OutboundGate_Twice(topic, message, schema) ==
  IF ~validate_message(message, schema) THEN
    [validated |-> <<Validation(schema, message, FALSE)>>,
     log |-> validate_log(message, schema) \o <<"error">>,
     out |-> <<>>]
  ELSE
    [validated |-> <<Validation(schema, message, TRUE)>>,
     log |-> <<"info">>,
     out |-> <<Message(topic, message), Message(topic, message)>>]

\* The end of each producing handler: validate the message it built against
\* its own schema; log an error and return when that fails, publish otherwise
OutboundGate(topic, message, schema) ==
  IF ~validate_message(message, schema) THEN
    [validated |-> <<Validation(schema, message, FALSE)>>,
     log |-> validate_log(message, schema) \o <<"error">>,
     out |-> <<>>]
  ELSE
    [validated |-> <<Validation(schema, message, TRUE)>>,
     log |-> <<"info">>,
     out |-> <<Message(topic, message)>>]

-----------------------------------------------------------------------------
(* context_processor: the Window Store and the Context Aggregator *)

\* a deque without maxlen
DequeAppend_Unbounded(buf, x, n) == Append(buf, x)

\* the new reading put at the front
DequeAppend_Front(buf, x, n) ==
  IF Len(buf) >= n THEN <<x>> \o SubSeq(buf, 1, Len(buf) - 1) ELSE <<x>> \o buf

\* deque(maxlen=n).append(x): the oldest entry leaves a full deque
DequeAppend(buf, x, n) ==
  IF Len(buf) >= n THEN Append(SubSeq(buf, 2, Len(buf)), x) ELSE Append(buf, x)

\* the window forgotten: every buffered reading counts
WindowOf_WholeBuffer(buf, current_time, minutes) == buf

\* the window closed at its old end: a reading exactly D minutes old counts
WindowOf_Inclusive(buf, current_time, minutes) ==
  SelectSeq(buf, LAMBDA d : d.timestamp >= current_time - minutes)

\* [d for d in buffer if fromisoformat(d['timestamp']) > current_time - timedelta(minutes=D)]
WindowOf(buf, current_time, minutes) ==
  SelectSeq(buf, LAMBDA d : d.timestamp > current_time - minutes)

\* aware and naive datetimes compared without complaint
WindowRaises_Never(buf) == FALSE

\* datetime.fromisoformat(d['timestamp']) > current_time - timedelta(...)
\* for every d of the buffer: current_time = datetime.now() has no tzinfo,
\* and comparing it with a timestamp that has one raises TypeError
WindowRaises(buf) == \E i \in 1..Len(buf) : buf[i].tzinfo # NoVal

\* an empty window answered with -1 instead of 0
Average_OtherSentinel(values) ==
  IF values # <<>> THEN <<SeqSum(values), Len(values)>> ELSE <<-1, 1>>

\* sum(values) / len(values) if values else 0, as the fraction <<sum, len>>
Average(values) ==
  IF values # <<>> THEN <<SeqSum(values), Len(values)>> ELSE <<0, 1>>

\* max(values) if values else 0
Maximum(values) == IF values # <<>> THEN SeqMax(values) ELSE 0

\* avg > threshold, for the fraction avg
FractionGreater(avg, threshold) == avg[1] > threshold * avg[2]

\* the digits after the second decimal cut off
Round2_Truncating(avg, tie) == avg[1] \div avg[2]

\* round(avg, 2) in hundredths: the nearest integer to sum/len; when sum/len
\* lies exactly half way, the binary value of the float decides, which the
\* model leaves open as tie (0 rounds down, 1 rounds up)
Round2(avg, tie) ==
  LET q == avg[1] \div avg[2]
      r == avg[1] % avg[2]
  IN  IF 2 * r < avg[2] THEN q
      ELSE IF 2 * r > avg[2] THEN q + 1
      ELSE q + tie

\* the thresholds compared with >= instead of >
IsAnomaly_NonStrict(avg_temperature_c_5min, max_vibration_g_1min) ==
  \/ avg_temperature_c_5min[1] >= TEMPERATURE_THRESHOLD * avg_temperature_c_5min[2]
  \/ max_vibration_g_1min >= VIBRATION_THRESHOLD

IsAnomaly(avg_temperature_c_5min, max_vibration_g_1min) ==
  \/ FractionGreater(avg_temperature_c_5min, TEMPERATURE_THRESHOLD)
  \/ max_vibration_g_1min > VIBRATION_THRESHOLD

\* the status of the oldest buffered reading instead of the triggering one
CurrentStatus_Oldest(buf, data) == buf[1].status

\* current_status = data['status']
CurrentStatus(buf, data) == data.status

FieldOf(buf, field) == [i \in 1..Len(buf) |-> buf[i][field]]

\* process_raw_data from datetime.now() on: the context message built from
\* the machine's buffer buf for the reading data, drawing the identifier id
build_context(buf, machine_id, data, current_time, id, tie) ==
  LET data_5min == WindowOf(buf, current_time, WINDOW_TEMPERATURE)
      data_1min == WindowOf(buf, current_time, WINDOW_VIBRATION)
      data_10min == WindowOf(buf, current_time, WINDOW_POWER)
      avg_temperature_c_5min == Average(FieldOf(data_5min, "temperature_c"))
      max_vibration_g_1min == Maximum(FieldOf(data_1min, "vibration_g"))
      power_consumption_avg_10min == Average(FieldOf(data_10min, "power_kw"))
      is_anomaly_detected == IsAnomaly(avg_temperature_c_5min, max_vibration_g_1min)
      current_status == CurrentStatus(buf, data)
      context_payload ==
        [machine_id |-> machine_id,
         current_status |-> current_status,
         avg_temperature_c_5min |-> Round2(avg_temperature_c_5min, tie),
         max_vibration_g_1min |-> max_vibration_g_1min,
         power_consumption_avg_10min |-> Round2(power_consumption_avg_10min, tie),
         is_anomaly_detected |-> is_anomaly_detected]
  IN  [form |-> "object",
       context_id |-> id,
       timestamp |-> current_time,
       source_agent_id |-> CONTEXT_AGENT_ID,
       context_type |-> "machine_status_context",
       schema_version |-> CONTEXT_SCHEMA_VERSION,
       payload |-> context_payload,
       metadata |->
         [priority |-> IF is_anomaly_detected THEN "high" ELSE "normal",
          ttl_seconds |-> CONTEXT_TTL_SECONDS]]

\* one deque shared by all machines
process_raw_data_SharedBuffer(buffers, machine_id, data, current_time, id, tie) ==
  LET old == IF DOMAIN buffers = {} THEN <<>>
             ELSE buffers[CHOOSE m \in DOMAIN buffers : TRUE]
      buf == DequeAppend(old, data, BUFFER_MAXLEN)
  IN  [buffers |-> [m \in DOMAIN buffers \cup {machine_id} |-> buf],
       raised |-> WindowRaises(buf),
       context_message |-> build_context(buf, machine_id, data, current_time, id, tie)]

\* process_raw_data(machine_id, data) at time current_time, drawing the
\* identifier id: the buffers afterwards, whether the window filter raised
\* (then nothing is returned) and the context message
process_raw_data(buffers, machine_id, data, current_time, id, tie) ==
  LET old == IF machine_id \in DOMAIN buffers THEN buffers[machine_id] ELSE <<>>
      buf == DequeAppend(old, data, BUFFER_MAXLEN)
  IN  [buffers |->
         [m \in DOMAIN buffers \cup {machine_id} |->
            IF m = machine_id THEN buf ELSE buffers[m]],
       raised |-> WindowRaises(buf),
       context_message |-> build_context(buf, machine_id, data, current_time, id, tie)]

\* the reading stored before it is checked
ContextOnMessage_AppendFirst(buffers, body, current_time, id, tie) ==
  IF body.form # "object" THEN
    [buffers |-> buffers,
     run |-> Run("context_processor", body, <<>>, <<"error">>, <<>>, <<>>, <<>>)]
  ELSE
    LET p == process_raw_data(buffers, body.machine_id, body, current_time, id, tie)
        context_topic == Topic(PROCESSED_CONTEXT_TOPIC_PREFIX, body.machine_id)
        g == OutboundGate(context_topic, p.context_message, "context_schema")
    IN  IF ~Truthy(body.machine_id) THEN
          [buffers |-> p.buffers,
           run |-> Run("context_processor", body, <<>>, <<"warning">>, <<>>, <<>>, <<>>)]
        ELSE IF ~validate_message(body, "raw_schema") THEN
          [buffers |-> p.buffers,
           run |-> Run("context_processor", body,
                       <<Validation("raw_schema", body, FALSE)>>,
                       <<"warning", "warning">>, <<>>, <<>>, <<>>)]
        ELSE
          [buffers |-> p.buffers,
           run |-> Run("context_processor", body,
                       <<Validation("raw_schema", body, TRUE)>> \o g.validated,
                       g.log, <<>>, <<>>, g.out)]

\* context_processor.on_message: the buffers afterwards and the run
ContextOnMessage(buffers, body, current_time, id, tie) ==
  IF body.form = "garbage" THEN
    \* json.JSONDecodeError
    [buffers |-> buffers,
     run |-> Run("context_processor", body, <<>>, <<"error">>, <<>>, <<>>, <<>>)]
  ELSE IF body.form = "nonobject" THEN
    \* raw_data.get raises, caught by except Exception
    [buffers |-> buffers,
     run |-> Run("context_processor", body, <<>>, <<"error">>, <<>>, <<>>, <<>>)]
  ELSE IF ~Truthy(body.machine_id) THEN
    [buffers |-> buffers,
     run |-> Run("context_processor", body, <<>>, <<"warning">>, <<>>, <<>>, <<>>)]
  ELSE IF ~validate_message(body, "raw_schema") THEN
    [buffers |-> buffers,
     run |-> Run("context_processor", body,
                 <<Validation("raw_schema", body, FALSE)>>,
                 validate_log(body, "raw_schema") \o <<"warning">>, <<>>, <<>>, <<>>)]
  ELSE
    LET p == process_raw_data(buffers, body.machine_id, body, current_time, id, tie)
        context_topic == Topic(PROCESSED_CONTEXT_TOPIC_PREFIX, body.machine_id)
        g == OutboundGate(context_topic, p.context_message, "context_schema")
    IN  IF p.raised THEN
          \* TypeError out of process_raw_data, caught by except Exception
          [buffers |-> p.buffers,
           run |-> Run("context_processor", body,
                       <<Validation("raw_schema", body, TRUE)>>,
                       <<"error">>, <<>>, <<>>, <<>>)]
        ELSE
          [buffers |-> p.buffers,
           run |-> Run("context_processor", body,
                       <<Validation("raw_schema", body, TRUE)>> \o g.validated,
                       g.log, <<>>, <<>>, g.out)]

-----------------------------------------------------------------------------
(* predictive_maintenance_agent: the Decision Router *)

\* features.json as train_model.py writes it
features ==
  {"avg_temperature_c_5min", "max_vibration_g_1min", "power_consumption_avg_10min"}

\* the version check left out
ContextVersionMismatch_Never(body) == FALSE

\* context_message.get("schema_version") != SUPPORTED_CONTEXT_SCHEMA_VERSION
ContextVersionMismatch(body) == body.schema_version # SUPPORTED_CONTEXT_SCHEMA_VERSION

\* the model called on a row of zeros
Prediction_Blind(context_payload, outcome) ==
  [input |-> [k \in features |-> 0],
   raised |-> outcome.raised,
   label |-> outcome.label]

\* One call of the model: the feature values it was given and what it did;
\* outcome is what model.predict / predict_proba return, or that they raise
Prediction(context_payload, outcome) ==
  [input |-> [k \in features |-> context_payload[k]],
   raised |-> outcome.raised,
   label |-> outcome.label]

\* predictive_maintenance_agent.on_message from the feature extraction on: the
\* predictor is called on a context that passed the three checks, and the
\* decision is built, validated and published
make_decision(body, current_time, id, outcome) ==
  LET machine_id == body.payload.machine_id
      context_payload == body.payload
      call == Prediction(context_payload, outcome)
  IN  IF outcome.raised THEN
        \* caught by except Exception
        Run("predictive_maintenance_agent", body,
            <<Validation("context_schema", body, TRUE)>>, <<"error">>,
            <<call>>, <<>>, <<>>)
      ELSE
        LET needs_maintenance == outcome.label
            decision_message ==
              [form |-> "object",
               decision_id |-> id,
               timestamp |-> current_time,
               source_agent_id |-> DECISION_AGENT_ID,
               decision_type |-> "maintenance_decision",
               schema_version |-> DECISION_SCHEMA_VERSION,
               payload |->
                 [machine_id |-> machine_id,
                  needs_maintenance |-> needs_maintenance,
                  prediction_confidence |-> outcome.confidence,
                  predicted_features |-> [k \in features |-> context_payload[k]]],
               metadata |->
                 [priority |-> IF needs_maintenance THEN "high" ELSE "normal",
                  ttl_seconds |-> DECISION_TTL_SECONDS]]
            decision_topic == Topic(DECISION_TOPIC_PREFIX, machine_id)
            g == OutboundGate(decision_topic, decision_message, "decision_schema")
        IN  Run("predictive_maintenance_agent", body,
                <<Validation("context_schema", body, TRUE)>> \o g.validated,
                <<"info">> \o g.log, <<call>>, <<>>, g.out)

\* the three checks in the reverse order: the version first, then the contract,
\* the entity id last
AgentOnMessage_VersionFirst(body, current_time, id, outcome) ==
  IF body.form = "garbage" THEN
    Run("predictive_maintenance_agent", body, <<>>, <<"error">>, <<>>, <<>>, <<>>)
  ELSE IF body.form = "nonobject" THEN
    Run("predictive_maintenance_agent", body, <<>>, <<"error">>, <<>>, <<>>, <<>>)
  ELSE IF ContextVersionMismatch(body) THEN
    Run("predictive_maintenance_agent", body, <<>>, <<"warning">>, <<>>, <<>>, <<>>)
  ELSE IF ~validate_message(body, "context_schema") THEN
    Run("predictive_maintenance_agent", body,
        <<Validation("context_schema", body, FALSE)>>,
        validate_log(body, "context_schema") \o <<"warning">>, <<>>, <<>>, <<>>)
  ELSE IF ~Truthy(body.payload.machine_id) THEN
    Run("predictive_maintenance_agent", body,
        <<Validation("context_schema", body, TRUE)>>, <<"warning">>, <<>>, <<>>, <<>>)
  ELSE make_decision(body, current_time, id, outcome)

\* predictive_maintenance_agent.on_message; id is the uuid4 it may draw,
\* outcome what the predictor does if it is called
AgentOnMessage(body, current_time, id, outcome) ==
  IF body.form = "garbage" THEN
    Run("predictive_maintenance_agent", body, <<>>, <<"error">>, <<>>, <<>>, <<>>)
  ELSE IF body.form = "nonobject" THEN
    Run("predictive_maintenance_agent", body, <<>>, <<"error">>, <<>>, <<>>, <<>>)
  ELSE IF ~Truthy(body.payload.machine_id) THEN
    Run("predictive_maintenance_agent", body, <<>>, <<"warning">>, <<>>, <<>>, <<>>)
  ELSE IF ~validate_message(body, "context_schema") THEN
    Run("predictive_maintenance_agent", body,
        <<Validation("context_schema", body, FALSE)>>,
        validate_log(body, "context_schema") \o <<"warning">>, <<>>, <<>>, <<>>)
  ELSE IF ContextVersionMismatch(body) THEN
    Run("predictive_maintenance_agent", body,
        <<Validation("context_schema", body, TRUE)>>, <<"warning">>, <<>>, <<>>, <<>>)
  ELSE make_decision(body, current_time, id, outcome)

-----------------------------------------------------------------------------
(* action_executor: the Action Dispatcher *)

\* the dispatch on decision_type letting another type through
SUPPORTED_DECISION_TYPES_Wider == {"maintenance_decision", "shutdown_decision"}

SUPPORTED_DECISION_TYPES == {"maintenance_decision"}

\* decision_message.get("schema_version") != SUPPORTED_DECISION_SCHEMA_VERSION
DecisionVersionMismatch(body) == body.schema_version # SUPPORTED_DECISION_SCHEMA_VERSION

\* the two outcomes the wrong way round
ActionTaken_Swapped(needs_maintenance) ==
  IF needs_maintenance THEN "no_action_taken" ELSE "maintenance_initiated"

\* "maintenance_initiated" if needs_maintenance else "no_action_taken"
ActionTaken(needs_maintenance) ==
  IF needs_maintenance THEN "maintenance_initiated" ELSE "no_action_taken"

\* the confirmation linked to the identifier after the decision's
ConfirmedDecisionId_Next(decision_message, id) == decision_message.decision_id + 1

\* the confirmation linked to a fresh identifier instead of the decision's
ConfirmedDecisionId_Fresh(decision_message, id) == id

\* the decision_id the confirmation carries: decision_message["decision_id"]
ConfirmedDecisionId(decision_message, id) == decision_message.decision_id

\* action_executor.on_message; id is the uuid4 it may draw
ExecutorOnMessage(body, current_time, id) ==
  IF body.form = "garbage" THEN
    Run("action_executor", body, <<>>, <<"error">>, <<>>, <<>>, <<>>)
  ELSE IF body.form = "nonobject" THEN
    Run("action_executor", body, <<>>, <<"error">>, <<>>, <<>>, <<>>)
  ELSE IF ~Truthy(body.payload.machine_id) \/ ~Truthy(body.decision_type) THEN
    Run("action_executor", body, <<>>, <<"warning">>, <<>>, <<>>, <<>>)
  ELSE IF ~validate_message(body, "decision_schema") THEN
    Run("action_executor", body,
        <<Validation("decision_schema", body, FALSE)>>,
        validate_log(body, "decision_schema") \o <<"warning">>, <<>>, <<>>, <<>>)
  ELSE IF DecisionVersionMismatch(body) THEN
    Run("action_executor", body,
        <<Validation("decision_schema", body, TRUE)>>, <<"warning">>, <<>>, <<>>, <<>>)
  ELSE IF body.decision_type \notin SUPPORTED_DECISION_TYPES THEN
    Run("action_executor", body,
        <<Validation("decision_schema", body, TRUE)>>, <<"warning">>, <<>>, <<>>, <<>>)
  ELSE
    LET machine_id == body.payload.machine_id
        needs_maintenance == body.payload.needs_maintenance
        confirmation_payload ==
          [machine_id |-> machine_id,
           decision_id |-> ConfirmedDecisionId(body, id),
           action_taken |-> ActionTaken(needs_maintenance),
           status |-> "success",
           details |-> body.decision_type]
        action_confirmation_message ==
          [form |-> "object",
           confirmation_id |-> id,
           timestamp |-> current_time,
           source_agent_id |-> ACTION_AGENT_ID,
           confirmation_type |-> "action_confirmation",
           schema_version |-> ACTION_CONFIRMATION_SCHEMA_VERSION,
           payload |-> confirmation_payload,
           metadata |->
             [priority |-> "normal", ttl_seconds |-> CONFIRMATION_TTL_SECONDS]]
        confirmation_topic == Topic(SIMULATED_ACTION_TOPIC_PREFIX, machine_id)
        g == OutboundGate(confirmation_topic, action_confirmation_message,
                          "action_confirmation_schema")
    IN  Run("action_executor", body,
            <<Validation("decision_schema", body, TRUE)>> \o g.validated,
            <<IF needs_maintenance THEN "critical" ELSE "info">> \o g.log,
            <<>>,
            <<IF needs_maintenance THEN "initiate_maintenance" ELSE "continue_operation">>,
            g.out)

-----------------------------------------------------------------------------
(* performance_monitor: the Observability Sink *)

\* from datetime import datetime: the module never imports timedelta, so
\* evaluating timedelta(minutes=5) raises NameError
TIMEDELTA_IMPORTED == FALSE

\* timedelta(minutes=5)
RETENTION_MINUTES == 5

\* str.startswith over the topic prefixes of the system
StartsWith(prefix, start) ==
  \/ prefix = start
  \/ prefix = DECISION_TOPIC_PREFIX /\ start = DECISION_SUBSCRIBE_PREFIX

\* recent_contexts[machine_id][context_id] = message
StoreContext(recent, machine_id, context_id, message) ==
  LET old == IF machine_id \in DOMAIN recent THEN recent[machine_id] ELSE <<>>
      new == [c \in DOMAIN old \cup {context_id} |->
                IF c = context_id THEN message ELSE old[c]]
  IN  [m \in DOMAIN recent \cup {machine_id} |->
         IF m = machine_id THEN new ELSE recent[m]]

\* the loop that deletes the entries older than the horizon
PruneContexts(recent, machine_id, current_time) ==
  LET old == recent[machine_id]
      keep == {c \in DOMAIN old : ~(old[c].timestamp < current_time - RETENTION_MINUTES)}
  IN  [m \in DOMAIN recent |->
         IF m = machine_id THEN [c \in keep |-> old[c]] ELSE recent[m]]

\* performance_monitor.on_message: the index afterwards and the run
MonitorOnMessage(recent, topic, body, current_time) ==
  IF body.form = "garbage" THEN
    [recent |-> recent,
     run |-> Run("performance_monitor", body, <<>>, <<"error">>, <<>>, <<>>, <<>>)]
  ELSE IF StartsWith(topic.prefix, SIMULATED_ACTION_TOPIC_PREFIX) THEN
    IF ~validate_message(body, "action_confirmation_schema") THEN
      [recent |-> recent,
       run |-> Run("performance_monitor", body,
                   <<Validation("action_confirmation_schema", body, FALSE)>>,
                   validate_log(body, "action_confirmation_schema") \o <<"warning">>,
                   <<>>, <<>>, <<>>)]
    ELSE
      \* "PERFORMANCE MONITOR: Action Confirmed for ..."
      [recent |-> recent,
       run |-> Run("performance_monitor", body,
                   <<Validation("action_confirmation_schema", body, TRUE)>>,
                   <<"info">>, <<>>, <<>>, <<>>)]
  ELSE IF StartsWith(topic.prefix, PROCESSED_CONTEXT_TOPIC_PREFIX) THEN
    IF ~validate_message(body, "context_schema") THEN
      [recent |-> recent,
       run |-> Run("performance_monitor", body,
                   <<Validation("context_schema", body, FALSE)>>,
                   validate_log(body, "context_schema") \o <<"warning">>,
                   <<>>, <<>>, <<>>)]
    ELSE
      LET machine_id == body.payload.machine_id
          stored == StoreContext(recent, machine_id, body.context_id, body)
      IN  IF TIMEDELTA_IMPORTED THEN
            \* the closing record is logged at debug, below the configured level
            [recent |-> PruneContexts(stored, machine_id, current_time),
             run |-> Run("performance_monitor", body,
                         <<Validation("context_schema", body, TRUE)>>,
                         <<>>, <<>>, <<>>, <<>>)]
          ELSE
            \* NameError in the first pass of the loop, caught by except Exception
            [recent |-> stored,
             run |-> Run("performance_monitor", body,
                         <<Validation("context_schema", body, TRUE)>>,
                         <<"error">>, <<>>, <<>>, <<>>)]
  ELSE IF topic.prefix = AGENT_DISCOVERY_TOPIC THEN
    IF ~validate_message(body, "agent_heartbeat_schema") THEN
      [recent |-> recent,
       run |-> Run("performance_monitor", body,
                   <<Validation("agent_heartbeat_schema", body, FALSE)>>,
                   validate_log(body, "agent_heartbeat_schema") \o <<"warning">>,
                   <<>>, <<>>, <<>>)]
    ELSE
      [recent |-> recent,
       run |-> Run("performance_monitor", body,
                   <<Validation("agent_heartbeat_schema", body, TRUE)>>,
                   <<"info">>, <<>>, <<>>, <<>>)]
  ELSE
    [recent |-> recent,
     run |-> Run("performance_monitor", body, <<>>, <<>>, <<>>, <<>>, <<>>)]

-----------------------------------------------------------------------------
(* The processes: main, load_schemas / load_artifacts, on_connect, and the   *)
(* try / except of each on_message                                          *)

\* a pool of two threads calling on_message
LoopThreads_Pool == {"worker-1", "worker-2"}

\* the threads that call on_message: client.loop_forever() runs the network
\* loop, and with it every callback, in the thread that called it
LoopThreads == {"loop_forever"}

\* a thread's frame: where it stands in process_raw_data, and with which reading
Frame(pc, data) == [pc |-> pc, data |-> data]

Idle == Frame("idle", NoVal)

\* the files main loads before it connects, in the order it loads them
Artifacts(stage) ==
  CASE stage = "context_processor" -> <<"raw_schema", "context_schema">>
    [] stage = "predictive_maintenance_agent" ->
         <<"model", "features", "context_schema", "decision_schema">>
    [] stage = "action_executor" -> <<"decision_schema", "action_confirmation_schema">>
    [] stage = "performance_monitor" ->
         <<"action_confirmation_schema", "context_schema", "agent_heartbeat_schema">>

\* what may go wrong with a file: the first two are caught and answered with
\* exit(1), any other exception leaves main with a traceback
LoadFailures == {"FileNotFoundError", "JSONDecodeError", "PermissionError"}

\* the executor subscribed under a topic nobody publishes to
Subscriptions_ExecutorDeaf(stage) ==
  CASE stage = "context_processor" -> {RAW_DATA_TOPIC_PREFIX}
    [] stage = "predictive_maintenance_agent" -> {PROCESSED_CONTEXT_TOPIC_PREFIX}
    [] stage = "action_executor" -> {"decisions/"}
    [] stage = "performance_monitor" ->
         {SIMULATED_ACTION_TOPIC_PREFIX, PROCESSED_CONTEXT_TOPIC_PREFIX,
          AGENT_DISCOVERY_TOPIC}

\* client.subscribe(...) of each on_connect
Subscriptions(stage) ==
  CASE stage = "context_processor" -> {RAW_DATA_TOPIC_PREFIX}
    [] stage = "predictive_maintenance_agent" -> {PROCESSED_CONTEXT_TOPIC_PREFIX}
    [] stage = "action_executor" -> {DECISION_SUBSCRIBE_PREFIX}
    [] stage = "performance_monitor" ->
         {SIMULATED_ACTION_TOPIC_PREFIX, PROCESSED_CONTEXT_TOPIC_PREFIX,
          AGENT_DISCOVERY_TOPIC}

Process(status, unloaded, subscribed) ==
  [status |-> status, unloaded |-> unloaded, subscribed |-> subscribed]

\* a process whose main has not run yet
Starting(stage) == Process("starting", Range(Artifacts(stage)), {})

\* a process that loaded everything, connected and subscribed
Running(stage) == Process("running", {}, Subscriptions(stage))

\* a failed load that is logged and passed over: main goes on to connect
load_artifacts_Continues(stage, failed, failure) ==
  LET files == Artifacts(stage)
  IN  Process("loaded", {files[i] : i \in {j \in DOMAIN files : j >= failed /\ failed > 0}}, {})

\* load_schemas / load_artifacts of main: the files are loaded in order;
\* failed is the position of the first file that fails to load with failure
\* (0: none fails). A failure ends the process, by exit(1) or by the
\* exception leaving main, with that file and those after it not loaded
load_artifacts(stage, failed, failure) ==
  LET files == Artifacts(stage)
  IN  IF failed = 0 THEN Process("loaded", {}, {})
      ELSE Process("aborted", {files[i] : i \in {j \in DOMAIN files : j >= failed}}, {})

\* the agent's heartbeat_message
heartbeat_message(current_time) ==
  [form |-> "object",
   agent_id |-> DECISION_AGENT_ID,
   timestamp |-> current_time,
   capabilities |->
     [consumes_context_types |->
        {[type |-> "machine_status_context",
          schema_version |-> SUPPORTED_CONTEXT_SCHEMA_VERSION]},
      produces_decision_types |->
        {[type |-> "maintenance_decision", schema_version |-> DECISION_SCHEMA_VERSION]}],
   status |-> "online"]

\* the heartbeat published without the retain flag
publish_heartbeat_NotRetained(current_time) ==
  [message |-> Message(Topic(AGENT_DISCOVERY_TOPIC, ""), heartbeat_message(current_time)),
   retain |-> FALSE]

\* publish_heartbeat(client): client.publish(AGENT_DISCOVERY_TOPIC, ...,
\* qos=0, retain=True)
publish_heartbeat(current_time) ==
  [message |-> Message(Topic(AGENT_DISCOVERY_TOPIC, ""), heartbeat_message(current_time)),
   retain |-> TRUE]

\* on_connect(client, userdata, flags, rc) of a service: what it subscribes
\* to, what it logs and what it publishes
on_connect(stage, rc, current_time) ==
  IF rc = 0 THEN
    [subscribed |-> Subscriptions(stage),
     log |-> IF stage = "predictive_maintenance_agent"
             THEN <<"info", "info", "info">> ELSE <<"info", "info">>,
     published |-> IF stage = "predictive_maintenance_agent"
                   THEN <<publish_heartbeat(current_time)>> ELSE <<>>]
  ELSE
    [subscribed |-> {}, log |-> <<"error">>, published |-> <<>>]

\* the except clauses of on_message
ExceptClauses_NoCatchAll(stage) == {"JSONDecodeError", "KeyError"}

ExceptClauses(stage) ==
  IF stage = "context_processor" THEN {"JSONDecodeError", "Exception"}
  ELSE {"JSONDecodeError", "KeyError", "Exception"}

\* except clause catches an exception of class raised
Catches(clause, raised) == clause = raised \/ clause = "Exception"

\* the exception raised inside the try block of the run, or "none"
RaisedIn(run) ==
  IF run.inbound.form = "garbage" THEN "JSONDecodeError"
  ELSE IF run.inbound.form = "nonobject" /\ run.stage # "performance_monitor"
    THEN "AttributeError"
  ELSE IF run.predicted # <<>> /\ run.predicted[1].raised THEN "PredictorError"
  ELSE IF /\ run.stage = "context_processor"
          /\ Len(run.validated) = 1
          /\ run.validated[1].ok
    THEN "TypeError"
  ELSE IF /\ run.stage = "performance_monitor"
          /\ ~TIMEDELTA_IMPORTED
          /\ run.validated # <<>>
          /\ run.validated[1].schema = "context_schema"
          /\ run.validated[1].ok
    THEN "NameError"
  ELSE "none"

\* the exception leaves on_message, and with it loop_forever and main
Escapes(run) ==
  /\ RaisedIn(run) # "none"
  /\ ~\E clause \in ExceptClauses(run.stage) : Catches(clause, RaisedIn(run))

-----------------------------------------------------------------------------
(* What the bus delivers *)

Reading(machine_id, timestamp, temperature_c, vibration_g, power_kw, status) ==
  [form |-> "object", machine_id |-> machine_id, timestamp |-> timestamp,
   temperature_c |-> temperature_c, vibration_g |-> vibration_g,
   power_kw |-> power_kw, status |-> status, tzinfo |-> NoVal]

\* A reading whose ISO timestamp carries a UTC offset ("...+00:00"), as a
\* publisher other than data_generator may write it
AwareReading(machine_id, timestamp, temperature_c, vibration_g, power_kw, status) ==
  [Reading(machine_id, timestamp, temperature_c, vibration_g, power_kw, status)
     EXCEPT !.tzinfo = "+00:00"]

\* A context document of another publisher
ContextDoc(context_id, machine_id, schema_version, current_time) ==
  [form |-> "object", context_id |-> context_id, timestamp |-> current_time,
   source_agent_id |-> "other_publisher", context_type |-> "machine_status_context",
   schema_version |-> schema_version,
   payload |->
     [machine_id |-> machine_id, current_status |-> "running",
      avg_temperature_c_5min |-> 4520, max_vibration_g_1min |-> 120,
      power_consumption_avg_10min |-> 2500, is_anomaly_detected |-> FALSE],
   metadata |-> [priority |-> "normal", ttl_seconds |-> CONTEXT_TTL_SECONDS]]

\* A decision document of another publisher
DecisionDoc(decision_id, machine_id, decision_type, schema_version, needs_maintenance) ==
  [form |-> "object", decision_id |-> decision_id, timestamp |-> 0,
   source_agent_id |-> "other_publisher", decision_type |-> decision_type,
   schema_version |-> schema_version,
   payload |->
     [machine_id |-> machine_id, needs_maintenance |-> needs_maintenance,
      prediction_confidence |-> 95,
      predicted_features |->
        [k \in features |->
           CASE k = "avg_temperature_c_5min" -> 7500
             [] k = "max_vibration_g_1min" -> 350
             [] OTHER -> 3800]],
   metadata |-> [priority |-> "high", ttl_seconds |-> DECISION_TTL_SECONDS]]

\* A confirmation document of another publisher
ConfirmationDoc(confirmation_id, machine_id, schema_version) ==
  [form |-> "object", confirmation_id |-> confirmation_id, timestamp |-> 0,
   source_agent_id |-> "other_publisher", confirmation_type |-> "action_confirmation",
   schema_version |-> schema_version,
   payload |->
     [machine_id |-> machine_id, decision_id |-> -2,
      action_taken |-> "maintenance_initiated", status |-> "success",
      details |-> "maintenance_decision"],
   metadata |-> [priority |-> "normal", ttl_seconds |-> CONFIRMATION_TTL_SECONDS]]

HeartbeatDoc(agent_id, status) ==
  [form |-> "object", agent_id |-> agent_id, timestamp |-> 0, status |-> status]

\* Payloads on raw_data/machine_sensors/# at time t: readings stamped t by the
\* generator, and malformed ones
RawDeliveries(t) ==
  {GarbageBody, NonObjectBody}
    \cup {Reading(m, t, 3550, 80, 1230, "running") : m \in {"CNC001", NoVal, ""}}
    \cup {Reading("ROBOT001", t, 7550, 310, 3000, s) : s \in {"error", "broken"}}

\* Payloads on context/machine_status/# that no service of the system made
ForeignContexts ==
  {GarbageBody, NonObjectBody}
    \cup {ContextDoc(-1, "CNC001", v, 0) : v \in {"1.0.0", "2.0.0", "1.0"}}
    \cup {ContextDoc(-1, NoVal, "1.0.0", 0)}

\* Payloads on decision/# that no service of the system made
ForeignDecisions ==
  {GarbageBody, NonObjectBody}
    \cup {DecisionDoc(-2, "CNC001", "maintenance_decision", v, TRUE) :
            v \in {"1.0.0", "2.0.0", "1.0"}}
    \cup {DecisionDoc(-2, "CNC001", "shutdown_decision", v, TRUE) : v \in {"1.0.0", "1.0"}}
    \cup {DecisionDoc(-2, "CNC001", NoVal, "1.0.0", TRUE),
          DecisionDoc(-2, NoVal, "maintenance_decision", "1.0.0", TRUE)}

\* Payloads on simulated_actions/# and agent/discovery/heartbeat that no
\* service of the system made
ForeignConfirmations ==
  {GarbageBody} \cup {ConfirmationDoc(-3, "CNC001", v) : v \in {"2.0.0", "1.0"}}

ForeignHeartbeats ==
  {HeartbeatDoc(DECISION_AGENT_ID, "online"), HeartbeatDoc(DECISION_AGENT_ID, "asleep")}

\* What the predictor may do when called
PredictorOutcomes ==
  {[raised |-> FALSE, label |-> l, confidence |-> 100] : l \in BOOLEAN}
    \cup {[raised |-> TRUE, label |-> FALSE, confidence |-> 0]}

Published(prefix) == {m \in bus : StartsWith(m.topic.prefix, prefix)}

Bodies(messages) == {m.body : m \in messages}

\* a run that got as far as building its outbound message drew a uuid4
DrewId(run) == Len(run.validated) = 2

-----------------------------------------------------------------------------
(* The state machine *)

Init ==
  /\ now = 0
  /\ nextId = 1
  /\ DATA_BUFFERS = <<>>
  /\ recent_contexts = <<>>
  /\ bus = {}
  /\ last = NoRun
  /\ service = [stage \in STAGES |-> Running(stage)]
  /\ retained = {publish_heartbeat(0).message}
  /\ callbacks = [th \in LoopThreads |-> Idle]
  /\ inbox = [stage \in STAGES |-> {}]

\* Before any main has run: nothing is loaded, nobody is connected
InitStartup ==
  /\ now = 0
  /\ nextId = 1
  /\ DATA_BUFFERS = <<>>
  /\ recent_contexts = <<>>
  /\ bus = {}
  /\ last = NoRun
  /\ service = [stage \in STAGES |-> Starting(stage)]
  /\ retained = {}
  /\ callbacks = [th \in LoopThreads |-> Idle]
  /\ inbox = [stage \in STAGES |-> {}]

\* time passes
Tick ==
  /\ now < MaxTime
  /\ now' = now + 1
  /\ UNCHANGED <<nextId, DATA_BUFFERS, recent_contexts, bus, last, service, retained,
                 callbacks, inbox>>

\* main up to client.connect: the files are loaded, or the process ends
Starts(stage, failed, failure) ==
  /\ service[stage].status = "starting"
  /\ service' = [service EXCEPT ![stage] = load_artifacts(stage, failed, failure)]
  /\ last' = Run("main", [form |-> "start", stage |-> stage, failed |-> failed,
                          failure |-> failure],
                 <<>>, IF failed = 0 THEN <<"info">> ELSE <<"error">>, <<>>, <<>>, <<>>)
  /\ UNCHANGED <<now, nextId, DATA_BUFFERS, recent_contexts, bus, retained,
                 callbacks, inbox>>

\* the broker answers client.connect, or a reconnect of loop_forever, with
\* the return code rc, and on_connect runs; a message published with
\* retain=True replaces the retained message of its topic
Connects(stage, rc) ==
  LET c == on_connect(stage, rc, now)
  IN  /\ service[stage].status \in {"loaded", "refused", "running"}
      /\ service' = [service EXCEPT
                       ![stage].status = IF rc = 0 THEN "running" ELSE "refused",
                       ![stage].subscribed = c.subscribed]
      /\ retained' =
           IF \E p \in Range(c.published) : p.retain
           THEN {p.message : p \in {q \in Range(c.published) : q.retain}}
           ELSE retained
      /\ last' = Run("on_connect", [form |-> "connack", stage |-> stage, rc |-> rc],
                     <<>>, c.log, <<>>, <<>>,
                     [i \in DOMAIN c.published |-> c.published[i].message])
      /\ UNCHANGED <<now, nextId, DATA_BUFFERS, recent_contexts, bus, callbacks, inbox>>

\* the end of an on_message run of a connected service
Finish(run) ==
  /\ service[run.stage].status = "running"
  /\ service' = IF Escapes(run)
                THEN [service EXCEPT ![run.stage].status = "crashed"]
                ELSE service
  /\ UNCHANGED retained
  /\ DrewId(run) => nextId <= MaxIds
  /\ nextId' = IF DrewId(run) THEN nextId + 1 ELSE nextId
  /\ bus' = bus \cup Range(run.out)
  /\ last' = run

\* the context processor is given a payload of raw_data/machine_sensors/#
ContextProcessorReceives(body, tie) ==
  LET r == ContextOnMessage(DATA_BUFFERS, body, now, nextId, tie)
  IN  /\ Finish(r.run)
      /\ DATA_BUFFERS' = r.buffers
      /\ UNCHANGED <<now, recent_contexts, callbacks, inbox>>

\* the agent is given a payload of context/machine_status/#
AgentReceives(body, outcome) ==
  /\ Finish(AgentOnMessage(body, now, nextId, outcome))
  /\ UNCHANGED <<now, DATA_BUFFERS, recent_contexts, callbacks, inbox>>

\* the action executor is given a payload of decision/#
ExecutorReceives(body) ==
  /\ Finish(ExecutorOnMessage(body, now, nextId))
  /\ UNCHANGED <<now, DATA_BUFFERS, recent_contexts, callbacks, inbox>>

\* the performance monitor is given a message of one of its three topics
MonitorReceives(topic, body) ==
  LET r == MonitorOnMessage(recent_contexts, topic, body, now)
  IN  /\ Finish(r.run)
      /\ recent_contexts' = r.recent
      /\ UNCHANGED <<now, DATA_BUFFERS, callbacks, inbox>>

ContextProcessorStep ==
  \E body \in RawDeliveries(now), tie \in {0, 1} : ContextProcessorReceives(body, tie)

\* readings that probe the two thresholds from both sides, each with its own
\* status; a reading arrives fresh, nine or twelve minutes old
ThresholdReadings(t) ==
  {Reading("CNC001", t - delay, s[1], s[2], s[3], s[4]) :
     delay \in {0, 9, 12},
     s \in {<<3550, 80, 1230, "running">>, <<7000, 300, 2000, "idle">>,
            <<7001, 80, 2000, "error">>, <<3550, 301, 2000, "maintenance">>}}

ThresholdStep ==
  \E body \in ThresholdReadings(now), tie \in {0, 1} : ContextProcessorReceives(body, tie)

\* a hot machine that reads 75, 80, 78 degrees, over and over
HotSamples == <<(<<7500, 100, 3000>>), (<<8000, 90, 3200>>), (<<7800, 80, 3100>>)>>

\* the n-th reading of the hot machine, which arrives fresh, four or nine
\* minutes old
WindowReadings(t, n) ==
  {Reading("CNC001", t - delay, HotSamples[(n % 3) + 1][1], HotSamples[(n % 3) + 1][2],
           HotSamples[(n % 3) + 1][3], "running") :
     delay \in {0, 4, 9}}

WindowStep ==
  \E body \in WindowReadings(now, nextId - 1), tie \in {0, 1} :
    ContextProcessorReceives(body, tie)

AgentStep ==
  \E body \in Bodies(Published(PROCESSED_CONTEXT_TOPIC_PREFIX)) \cup ForeignContexts,
     outcome \in PredictorOutcomes :
    AgentReceives(body, outcome)

ExecutorStep ==
  \E body \in Bodies(Published(DECISION_SUBSCRIBE_PREFIX)) \cup ForeignDecisions :
    ExecutorReceives(body)

MonitorStep ==
  \/ \E m \in Published(SIMULATED_ACTION_TOPIC_PREFIX) \cup Published(PROCESSED_CONTEXT_TOPIC_PREFIX) :
       MonitorReceives(m.topic, m.body)
  \/ \E body \in ForeignConfirmations :
       MonitorReceives(Topic(SIMULATED_ACTION_TOPIC_PREFIX, "CNC001"), body)
  \/ \E body \in ForeignContexts :
       MonitorReceives(Topic(PROCESSED_CONTEXT_TOPIC_PREFIX, "CNC001"), body)
  \/ \E body \in ForeignHeartbeats \cup Bodies(retained) :
       MonitorReceives(Topic(AGENT_DISCOVERY_TOPIC, ""), body)

\* The three producing stages, fed by the bus and by other publishers
Next == ContextProcessorStep \/ AgentStep \/ ExecutorStep

Spec == Init /\ [][Next]_vars

\* The consumers of the last stages: the action executor and the monitor
NextMonitor == ContextProcessorStep \/ ExecutorStep \/ MonitorStep

SpecMonitor == Init /\ [][NextMonitor]_vars

\* The context processor alone, on readings around the thresholds
NextThreshold == ThresholdStep

SpecThreshold == Init /\ [][NextThreshold]_vars

\* The context processor alone, while time passes
NextWindow == Tick \/ WindowStep

SpecWindow == Init /\ [][NextWindow]_vars

\* the buffer of a machine that has reported n times, once a minute up to
\* time 0, each reading with a temperature of its own
LongRunning(n) ==
  [i \in 1..n |-> Reading("CNC001", i - n, 3000 + i, 80, 1230, "running")]

\* A context processor that has been up for hours: the buffer of CNC001 is
\* one reading short of its capacity, or full; the contexts of those runs
\* have long left the bus
InitCapacity ==
  /\ now = 0
  /\ nextId = 1
  /\ \E n \in {BUFFER_MAXLEN - 1, BUFFER_MAXLEN} :
       DATA_BUFFERS = [m \in {"CNC001"} |-> LongRunning(n)]
  /\ recent_contexts = <<>>
  /\ bus = {}
  /\ last = NoRun
  /\ service = [stage \in STAGES |-> Running(stage)]
  /\ retained = {publish_heartbeat(0).message}
  /\ callbacks = [th \in LoopThreads |-> Idle]
  /\ inbox = [stage \in STAGES |-> {}]

\* the next reading of the machine arrives fresh or four minutes old
CapacityStep ==
  \E body \in {r \in WindowReadings(now, nextId - 1) : r.timestamp >= now - 4} :
    ContextProcessorReceives(body, 0)

NextCapacity == Tick \/ CapacityStep

SpecCapacity == InitCapacity /\ [][NextCapacity]_vars

\* readings on their way to the context processor: three of each machine,
\* each with a temperature of its own
ThreadReadings(t) ==
  {Reading(m, t, 3550 + 100 * k, 80, 1230, "running") :
     m \in {"CNC001", "ROBOT001"}, k \in 1..3}

\* the threads inside process_raw_data
Busy == {th \in LoopThreads : callbacks[th].pc # "idle"}

\* the readings that have been handed to on_message
Handled ==
  {callbacks[th].data : th \in Busy}
    \cup UNION {Range(DATA_BUFFERS[m]) : m \in DOMAIN DATA_BUFFERS}

\* on_message is called with a reading that passes the identity and contract
\* checks, and process_raw_data tests 'machine_id not in DATA_BUFFERS'
Enters(th, body) ==
  /\ service["context_processor"].status = "running"
  /\ callbacks[th].pc = "idle"
  /\ nextId + Cardinality(Busy) <= MaxIds
  /\ body.form = "object"
  /\ Truthy(body.machine_id)
  /\ validate_message(body, "raw_schema")
  /\ callbacks' = [callbacks EXCEPT ![th] =
                     Frame(IF body.machine_id \in DOMAIN DATA_BUFFERS
                           THEN "append" ELSE "create", body)]
  /\ UNCHANGED <<now, nextId, DATA_BUFFERS, recent_contexts, bus, last, service,
                 retained, inbox>>

\* DATA_BUFFERS[machine_id] = deque(maxlen=BUFFER_MAXLEN)
CreatesBuffer(th) ==
  LET machine_id == callbacks[th].data.machine_id
  IN  /\ callbacks[th].pc = "create"
      /\ DATA_BUFFERS' = [m \in DOMAIN DATA_BUFFERS \cup {machine_id} |->
                            IF m = machine_id THEN <<>> ELSE DATA_BUFFERS[m]]
      /\ callbacks' = [callbacks EXCEPT ![th].pc = "append"]
      /\ UNCHANGED <<now, nextId, recent_contexts, bus, last, service, retained, inbox>>

\* DATA_BUFFERS[machine_id].append(data)
AppendsReading(th) ==
  LET data == callbacks[th].data
  IN  /\ callbacks[th].pc = "append"
      /\ DATA_BUFFERS' = [DATA_BUFFERS EXCEPT
                            ![data.machine_id] = DequeAppend(@, data, BUFFER_MAXLEN)]
      /\ callbacks' = [callbacks EXCEPT ![th].pc = "aggregate"]
      /\ UNCHANGED <<now, nextId, recent_contexts, bus, last, service, retained, inbox>>

\* the rest of process_raw_data and of on_message: the windows are read off
\* the buffer as it is now, the context is validated and published
Aggregates(th, tie) ==
  LET data == callbacks[th].data
      context_message == build_context(DATA_BUFFERS[data.machine_id], data.machine_id,
                                       data, now, nextId, tie)
      g == OutboundGate(Topic(PROCESSED_CONTEXT_TOPIC_PREFIX, data.machine_id),
                        context_message, "context_schema")
  IN  /\ callbacks[th].pc = "aggregate"
      /\ Finish(IF WindowRaises(DATA_BUFFERS[data.machine_id])
                THEN Run("context_processor", data,
                         <<Validation("raw_schema", data, TRUE)>>,
                         <<"error">>, <<>>, <<>>, <<>>)
                ELSE Run("context_processor", data,
                         <<Validation("raw_schema", data, TRUE)>> \o g.validated,
                         g.log, <<>>, <<>>, g.out))
      /\ callbacks' = [callbacks EXCEPT ![th] = Idle]
      /\ UNCHANGED <<now, DATA_BUFFERS, recent_contexts, inbox>>

EnterStep ==
  \E th \in LoopThreads, body \in ThreadReadings(now) \ Handled : Enters(th, body)

CreateStep == \E th \in LoopThreads : CreatesBuffer(th)

AppendStep == \E th \in LoopThreads : AppendsReading(th)

AggregateStep == \E th \in LoopThreads, tie \in {0, 1} : Aggregates(th, tie)

NextThreads == EnterStep \/ CreateStep \/ AppendStep \/ AggregateStep

SpecThreads == Init /\ [][NextThreads]_vars

\* the services whose subscription matches the topic
Subscribers(topic) ==
  {stage \in STAGES : \E f \in service[stage].subscribed : StartsWith(topic.prefix, f)}

\* the broker queues each of the messages for every subscriber
Routed(box, messages) ==
  [stage \in STAGES |-> box[stage] \cup {m \in messages : stage \in Subscribers(m.topic)}]

\* m leaves the queue of stage, whose run published out
Handover(stage, m, out) == Routed([inbox EXCEPT ![stage] = @ \ {m}], Range(out))

\* the predictor answers
PredictorAnswers == {o \in PredictorOutcomes : ~o.raised}

\* data_generator publishes a reading of one of the machines; the next one
\* is held back until the queues are empty and three identifiers are left
\* for its context, decision and confirmation
SensorPublishes(body) ==
  /\ \A stage \in STAGES : inbox[stage] = {}
  /\ nextId + 2 <= MaxIds
  /\ inbox' = Routed(inbox, {Message(Topic(RAW_DATA_TOPIC_PREFIX, body.machine_id), body)})
  /\ UNCHANGED <<now, nextId, DATA_BUFFERS, recent_contexts, bus, last, service,
                 retained, callbacks>>

\* the broker hands a queued message to the on_message of its subscriber
ProcessorIsHanded(m, tie) ==
  \E r \in {ContextOnMessage(DATA_BUFFERS, m.body, now, nextId, tie)} :
      /\ m \in inbox["context_processor"]
      /\ Finish(r.run)
      /\ DATA_BUFFERS' = r.buffers
      /\ inbox' = Handover("context_processor", m, r.run.out)
      /\ UNCHANGED <<now, recent_contexts, callbacks>>

AgentIsHanded(m, outcome) ==
  \E run \in {AgentOnMessage(m.body, now, nextId, outcome)} :
      /\ m \in inbox["predictive_maintenance_agent"]
      /\ Finish(run)
      /\ inbox' = Handover("predictive_maintenance_agent", m, run.out)
      /\ UNCHANGED <<now, DATA_BUFFERS, recent_contexts, callbacks>>

ExecutorIsHanded(m) ==
  \E run \in {ExecutorOnMessage(m.body, now, nextId)} :
      /\ m \in inbox["action_executor"]
      /\ Finish(run)
      /\ inbox' = Handover("action_executor", m, run.out)
      /\ UNCHANGED <<now, DATA_BUFFERS, recent_contexts, callbacks>>

MonitorIsHanded(m) ==
  \E r \in {MonitorOnMessage(recent_contexts, m.topic, m.body, now)} :
      /\ m \in inbox["performance_monitor"]
      /\ Finish(r.run)
      /\ recent_contexts' = r.recent
      /\ inbox' = Handover("performance_monitor", m, r.run.out)
      /\ UNCHANGED <<now, DATA_BUFFERS, callbacks>>

SensorStep ==
  \E body \in {Reading("CNC001", now, 3550, 80, 1230, "running"),
               Reading("ROBOT001", now, 7550, 310, 3000, "error"),
               Reading("ROBOT001", now, 7550, 310, 3000, "broken")} :
    SensorPublishes(body)

ProcessorDelivery ==
  \E m \in inbox["context_processor"], tie \in {0, 1} : ProcessorIsHanded(m, tie)

AgentDelivery ==
  \E m \in inbox["predictive_maintenance_agent"], outcome \in PredictorAnswers :
    AgentIsHanded(m, outcome)

ExecutorDelivery == \E m \in inbox["action_executor"] : ExecutorIsHanded(m)

MonitorDelivery == \E m \in inbox["performance_monitor"] : MonitorIsHanded(m)

NextProgress ==
  Tick \/ SensorStep \/ ProcessorDelivery \/ AgentDelivery \/ ExecutorDelivery
    \/ MonitorDelivery

\* The pipeline behind a broker that delivers every message it has queued:
\* each service sits in loop_forever, so a message queued for it is handed to
\* its on_message
SpecProgress ==
  /\ Init
  /\ [][NextProgress]_vars
  /\ WF_vars(ProcessorDelivery)
  /\ WF_vars(AgentDelivery)
  /\ WF_vars(ExecutorDelivery)
  /\ WF_vars(MonitorDelivery)

\* readings of CNC001 and ROBOT001, with and without a UTC offset in the
\* timestamp, and one that fails the raw contract
OffsetDeliveries(t) ==
  {Reading("CNC001", t, 3550, 80, 1230, "running"),
   AwareReading("CNC001", t, 4550, 80, 1230, "running"),
   Reading("ROBOT001", t, 7550, 310, 3000, "error"),
   Reading("CNC001", t, 3550, 80, 1230, "broken")}

\* a reading that passes the inbound checks is taken while its machine has
\* buffered fewer than MaxIds readings; a run that raises draws no identifier
OffsetStep ==
  \E body \in OffsetDeliveries(now) :
    /\ (Truthy(body.machine_id) /\ validate_message(body, "raw_schema")) =>
         (IF body.machine_id \in DOMAIN DATA_BUFFERS
          THEN Len(DATA_BUFFERS[body.machine_id]) ELSE 0) < MaxIds
    /\ ContextProcessorReceives(body, 0)

SpecOffset == Init /\ [][OffsetStep]_vars

\* contexts of other publishers that fail one, two or all three of the agent's
\* checks, next to those of ForeignContexts
GateContexts ==
  ForeignContexts
    \cup {ContextDoc(-1, "", v, 0) : v \in {"1.0.0", "1.0"}}
    \cup {ContextDoc(-1, NoVal, "2.0.0", 0)}
    \cup {[ContextDoc(-1, "CNC001", v, 0) EXCEPT !.context_type = "other_context"] :
            v \in {"1.0.0", "2.0.0"}}

\* the agent is handed a context of the processor or of another publisher
GateStep ==
  \E body \in Bodies(Published(PROCESSED_CONTEXT_TOPIC_PREFIX)) \cup GateContexts,
     outcome \in PredictorOutcomes :
    AgentReceives(body, outcome)

NextGate == ContextProcessorStep \/ GateStep

\* The processor and the agent, the agent on contexts of every kind
SpecGate == Init /\ [][NextGate]_vars

\* contexts of one machine that reach the monitor fresh or six minutes old
StaleContexts(t) ==
  {ContextDoc(id, "CNC001", "1.0.0", t - delay) : id \in {-1, -2}, delay \in {0, 6}}

RetentionStep ==
  \E body \in StaleContexts(now) :
    MonitorReceives(Topic(PROCESSED_CONTEXT_TOPIC_PREFIX, body.payload.machine_id), body)

\* The monitor alone, on contexts of several ages, while time passes
NextRetention == Tick \/ RetentionStep

SpecRetention == Init /\ [][NextRetention]_vars

\* payloads of every kind reach the context processor from one machine
RawFaultStep ==
  \E body \in {b \in RawDeliveries(now) : b.form = "object" => b.status # "error"} :
    ContextProcessorReceives(body, 0)

\* contexts of another publisher reach the agent, whose predictor may fail
ForeignContextStep ==
  \E body \in ForeignContexts, outcome \in {o \in PredictorOutcomes : o.raised \/ o.label} :
    AgentReceives(body, outcome)

\* decisions of another publisher reach the action executor
ForeignDecisionStep == \E body \in ForeignDecisions : ExecutorReceives(body)

\* confirmations, contexts and heartbeats of other publishers reach the monitor
ForeignMonitorStep ==
  \/ \E body \in ForeignConfirmations :
       MonitorReceives(Topic(SIMULATED_ACTION_TOPIC_PREFIX, "CNC001"), body)
  \/ \E body \in ForeignContexts :
       MonitorReceives(Topic(PROCESSED_CONTEXT_TOPIC_PREFIX, "CNC001"), body)
  \/ \E body \in ForeignHeartbeats \cup {NonObjectBody} :
       MonitorReceives(Topic(AGENT_DISCOVERY_TOPIC, ""), body)

\* The four services on every kind of payload
NextFaults ==
  RawFaultStep \/ ForeignContextStep \/ ForeignDecisionStep \/ ForeignMonitorStep

SpecFaults == Init /\ [][NextFaults]_vars

StartStep ==
  \E stage \in STAGES, failed \in 0..4, failure \in LoadFailures :
    /\ failed <= Len(Artifacts(stage))
    /\ Starts(stage, failed, failure)

ConnectStep == \E stage \in STAGES, rc \in {0, 5} : Connects(stage, rc)

\* the broker hands the retained heartbeat to the monitor
HeartbeatStep == \E m \in retained : MonitorReceives(m.topic, m.body)

\* contexts of another publisher reach the agent, whose predictor answers yes
AlarmStep ==
  \E body \in ForeignContexts :
    AgentReceives(body, [raised |-> FALSE, label |-> TRUE, confidence |-> 100])

\* The four processes from their start: loading, connecting, and the agent
\* and the monitor at work
NextStartup == StartStep \/ ConnectStep \/ AlarmStep \/ HeartbeatStep

SpecStartup == InitStartup /\ [][NextStartup]_vars

-----------------------------------------------------------------------------
(* Vocabulary of the properties *)

ProducingStages == {"context_processor", "predictive_maintenance_agent", "action_executor"}

\* the contract each stage's outbound message has to meet
OutboundSchema(stage) ==
  CASE stage = "context_processor" -> "context_schema"
    [] stage = "predictive_maintenance_agent" -> "decision_schema"
    [] stage = "action_executor" -> "action_confirmation_schema"

\* the contract of the messages of a topic
TopicSchema(prefix) ==
  CASE prefix = PROCESSED_CONTEXT_TOPIC_PREFIX -> "context_schema"
    [] prefix = DECISION_TOPIC_PREFIX -> "decision_schema"
    [] prefix = SIMULATED_ACTION_TOPIC_PREFIX -> "action_confirmation_schema"

\* the last run validated this very message against this schema, and it passed
PassedInLastRun(message, schema) ==
  \E j \in DOMAIN last.validated :
    /\ last.validated[j].schema = schema
    /\ last.validated[j].ok
    /\ last.validated[j].message = message

FailedInLastRun(schema) ==
  \E j \in DOMAIN last.validated :
    last.validated[j].schema = schema /\ ~last.validated[j].ok

\* the decision the action executor was given is one it accepts
AcceptedDecision(d) ==
  /\ d.form = "object"
  /\ d.payload.machine_id \notin {NoVal, ""}
  /\ d.decision_type \notin {NoVal, ""}
  /\ decision_schema(d)
  /\ d.schema_version = "1.0.0"
  /\ d.decision_type = "maintenance_decision"

\* the last run was the context processor's and it published a context
ContextPublished == last.stage = "context_processor" /\ last.out # <<>>

LastContext == last.out[1].body

\* the buffer of the machine of the last reading
LastBuffer == DATA_BUFFERS[last.inbound.machine_id]

\* the positions of buf whose reading is younger than minutes at time t
Within(buf, t, minutes) == {i \in 1..Len(buf) : t - buf[i].timestamp < minutes}

RECURSIVE Total(_, _, _)
Total(buf, positions, field) ==
  IF positions = {} THEN 0
  ELSE LET i == CHOOSE i \in positions : TRUE
       IN  buf[i][field] + Total(buf, positions \ {i}, field)

\* r is total/n to two decimals (values are in hundredths), or the sentinel 0
\* when there is nothing to average
IsMeanTo2Decimals(r, total, n) ==
  IF n = 0 THEN r = 0
  ELSE /\ 2 * (r * n - total) <= n
       /\ 2 * (total - r * n) <= n

\* r is the largest value of field at the positions, or 0 when there are none
IsLargest(r, buf, positions, field) ==
  IF positions = {} THEN r = 0
  ELSE /\ \E i \in positions : buf[i][field] = r
       /\ \A i \in positions : buf[i][field] <= r

-----------------------------------------------------------------------------
(* C1 *)

\* C1: a context, decision or confirmation is published only if that very
\* message passed validation against its stage's outbound contract in the
\* same handler run; a run whose outbound validation failed published
\* nothing; so every message on the bus meets the contract of its topic.
C1_PublishedOnlyIfValidated ==
  /\ last.stage \in ProducingStages =>
       /\ \A i \in DOMAIN last.out :
            PassedInLastRun(last.out[i].body, OutboundSchema(last.stage))
       /\ FailedInLastRun(OutboundSchema(last.stage)) => last.out = <<>>
  /\ \A m \in bus : validate_message(m.body, TopicSchema(m.topic.prefix))

\* all three stages have published, the last of them a confirmation
C1_Witness ==
  /\ last.stage = "action_executor"
  /\ last.out # <<>>
  /\ Published(PROCESSED_CONTEXT_TOPIC_PREFIX) # {}
  /\ Published(DECISION_TOPIC_PREFIX) # {}

-----------------------------------------------------------------------------
(* C2 *)

\* C2: in every context the context processor produces, is_anomaly_detected
\* is true exactly when the mean temperature of the machine's readings of the
\* last 5 minutes is strictly above 70 or some vibration of the last minute
\* is strictly above 3.0.
C2_AnomalyPredicate ==
  ContextPublished =>
    LET t == LastContext.timestamp
        m5 == Within(LastBuffer, t, 5)
        m1 == Within(LastBuffer, t, 1)
    IN  LastContext.payload.is_anomaly_detected
          <=> \/ /\ m5 # {}
                 /\ Total(LastBuffer, m5, "temperature_c") > 7000 * Cardinality(m5)
              \/ \E i \in m1 : LastBuffer[i].vibration_g > 300

\* contexts on both sides of both thresholds have been published: 70.0 with
\* 3.0 is no anomaly, 70.01 is one, 3.01 is one
C2_Witness ==
  /\ \E m \in Published(PROCESSED_CONTEXT_TOPIC_PREFIX) :
       /\ m.body.payload.avg_temperature_c_5min = 7000
       /\ m.body.payload.max_vibration_g_1min = 300
       /\ ~m.body.payload.is_anomaly_detected
  /\ \E m \in Published(PROCESSED_CONTEXT_TOPIC_PREFIX) :
       /\ m.body.payload.avg_temperature_c_5min = 7001
       /\ m.body.payload.max_vibration_g_1min <= 300
       /\ m.body.payload.is_anomaly_detected
  /\ \E m \in Published(PROCESSED_CONTEXT_TOPIC_PREFIX) :
       /\ m.body.payload.avg_temperature_c_5min <= 7000
       /\ m.body.payload.max_vibration_g_1min = 301
       /\ m.body.payload.is_anomaly_detected

-----------------------------------------------------------------------------
(* C3 *)

\* C3: the context of an accepted reading carries the mean temperature of
\* the machine's buffered readings of the last 5 minutes, the largest
\* vibration of the last minute and the mean power of the last 10 minutes,
\* each to two decimals; three readings of 75, 80 and 78 degrees inside five
\* minutes with vibration at most 1.0 give 77.67 and an anomaly.
C3_WindowAggregates ==
  ContextPublished =>
    LET t == LastContext.timestamp
        m5 == Within(LastBuffer, t, 5)
        m1 == Within(LastBuffer, t, 1)
        m10 == Within(LastBuffer, t, 10)
    IN  /\ IsMeanTo2Decimals(LastContext.payload.avg_temperature_c_5min,
                             Total(LastBuffer, m5, "temperature_c"), Cardinality(m5))
        /\ IsLargest(LastContext.payload.max_vibration_g_1min, LastBuffer, m1, "vibration_g")
        /\ IsMeanTo2Decimals(LastContext.payload.power_consumption_avg_10min,
                             Total(LastBuffer, m10, "power_kw"), Cardinality(m10))
        /\ (/\ Len(LastBuffer) = 3
            /\ m5 = {1, 2, 3}
            /\ LastBuffer[1].temperature_c = 7500
            /\ LastBuffer[2].temperature_c = 8000
            /\ LastBuffer[3].temperature_c = 7800
            /\ \A i \in 1..3 : LastBuffer[i].vibration_g <= 100)
             => /\ LastContext.payload.avg_temperature_c_5min = 7767
                /\ LastContext.payload.is_anomaly_detected

\* the third context of the 75, 80, 78 scenario, and the first reading of
\* it has left the one-minute window
C3_Witness ==
  /\ ContextPublished
  /\ Len(LastBuffer) = 3
  /\ Within(LastBuffer, LastContext.timestamp, 5) = {1, 2, 3}
  /\ 1 \notin Within(LastBuffer, LastContext.timestamp, 1)
  /\ LastBuffer[1].temperature_c = 7500
  /\ LastBuffer[2].temperature_c = 8000
  /\ LastBuffer[3].temperature_c = 7800
  /\ LastContext.payload.avg_temperature_c_5min = 7767

-----------------------------------------------------------------------------
(* C4 *)

\* C4: every context has the status of the reading that triggered it,
\* priority high exactly when is_anomaly_detected and normal otherwise, and
\* ttl 60; a first reading that is running at 35.5 degrees, 0.8 g and
\* 12.3 kW gives no anomaly and status running.
C4_StatusPriorityTtl ==
  ContextPublished =>
    /\ LastContext.payload.current_status = last.inbound.status
    /\ LastContext.metadata.priority =
         (IF LastContext.payload.is_anomaly_detected THEN "high" ELSE "normal")
    /\ LastContext.metadata.ttl_seconds = 60
    /\ (/\ Len(LastBuffer) = 1
        /\ last.inbound.status = "running"
        /\ last.inbound.temperature_c = 3550
        /\ last.inbound.vibration_g = 80
        /\ last.inbound.power_kw = 1230)
         => /\ ~LastContext.payload.is_anomaly_detected
            /\ LastContext.payload.current_status = "running"

\* a context whose machine has an older reading of another status in its
\* buffer, and which is an anomaly
C4_Witness ==
  /\ ContextPublished
  /\ Len(LastBuffer) >= 2
  /\ LastBuffer[1].status # last.inbound.status
  /\ LastContext.payload.current_status = last.inbound.status
  /\ LastContext.metadata.priority = "high"

-----------------------------------------------------------------------------
(* C5 *)

\* C5: a context delivered to the agent whose schema_version is not exactly
\* the supported version is dropped: the predictor is not called and no
\* decision is published for it.
C5_VersionMismatchDropped ==
  (/\ last.stage = "predictive_maintenance_agent"
   /\ last.inbound.form = "object"
   /\ last.inbound.schema_version # "1.0.0")
    => /\ last.predicted = <<>>
       /\ last.out = <<>>
       /\ last.simulated = <<>>

\* a context that passes the contract and carries another version was dropped
C5_Witness ==
  /\ last.stage = "predictive_maintenance_agent"
  /\ last.inbound.form = "object"
  /\ last.inbound.payload.machine_id = "CNC001"
  /\ context_schema(last.inbound)
  /\ last.inbound.schema_version = "2.0.0"
  /\ last.out = <<>>

-----------------------------------------------------------------------------
(* C6 *)

\* C6: every consumer checks the version for exact equality: the action
\* executor publishes no confirmation for a decision of another version, and
\* the monitor neither stores a context of another version in
\* recent_contexts nor reports a confirmation of another version.
C6_EveryConsumerChecksVersion ==
  /\ (/\ last.stage = "action_executor"
      /\ last.inbound.form = "object"
      /\ last.inbound.schema_version # "1.0.0")
       => last.out = <<>>
  /\ \A m \in DOMAIN recent_contexts :
       \A c \in DOMAIN recent_contexts[m] :
         recent_contexts[m][c].schema_version = "1.0.0"
  /\ (/\ last.stage = "performance_monitor"
      /\ last.inbound.form = "object"
      /\ last.inbound.schema_version # "1.0.0")
       => "info" \notin Range(last.log)

-----------------------------------------------------------------------------
(* C7 *)

\* C7: for a decision the action executor accepts, exactly one confirmation
\* is published, on the machine's confirmation topic, carrying the decision's
\* decision_id and machine_id; for any other delivery none is published.
C7_OneConfirmationPerAcceptedDecision ==
  last.stage = "action_executor" =>
    IF AcceptedDecision(last.inbound)
    THEN /\ Len(last.out) = 1
         /\ last.out[1].topic.prefix = SIMULATED_ACTION_TOPIC_PREFIX
         /\ last.out[1].body.confirmation_type = "action_confirmation"
         /\ last.out[1].body.payload.decision_id = last.inbound.decision_id
         /\ last.out[1].body.payload.machine_id = last.inbound.payload.machine_id
    ELSE last.out = <<>>

\* a decision made by the agent was accepted and confirmed
C7_Witness ==
  /\ last.stage = "action_executor"
  /\ AcceptedDecision(last.inbound)
  /\ last.inbound.source_agent_id = DECISION_AGENT_ID
  /\ Len(last.out) = 1

-----------------------------------------------------------------------------
(* C8 *)

\* C8: at most one confirmation is ever published for any decision_id, also
\* when the bus delivers the same decision more than once.
C8_AtMostOneConfirmationPerDecision ==
  \A m1, m2 \in Published(SIMULATED_ACTION_TOPIC_PREFIX) :
    m1.body.payload.decision_id = m2.body.payload.decision_id => m1 = m2

-----------------------------------------------------------------------------
(* C9 *)

\* C9 as stated: an accepted decision with needs_maintenance true is
\* confirmed with action_taken = "initiated", one with false with
\* "no_action_taken", status "success" in both cases.
C9_ActionTakenInitiated ==
  (last.stage = "action_executor" /\ AcceptedDecision(last.inbound)) =>
    /\ Len(last.out) = 1
    /\ last.out[1].body.payload.action_taken =
         (IF last.inbound.payload.needs_maintenance THEN "initiated" ELSE "no_action_taken")
    /\ last.out[1].body.payload.status = "success"

\* C9 amended: an accepted decision with needs_maintenance true is confirmed
\* with action_taken = "maintenance_initiated", one with false with
\* "no_action_taken", status "success" in both cases.
C9_ActionTakenMaintenanceInitiated ==
  (last.stage = "action_executor" /\ AcceptedDecision(last.inbound)) =>
    /\ Len(last.out) = 1
    /\ last.out[1].body.payload.action_taken =
         (IF last.inbound.payload.needs_maintenance
            THEN "maintenance_initiated" ELSE "no_action_taken")
    /\ last.out[1].body.payload.status = "success"

\* a decision that needs maintenance was confirmed
C9_Witness ==
  /\ last.stage = "action_executor"
  /\ AcceptedDecision(last.inbound)
  /\ last.inbound.payload.needs_maintenance
  /\ Len(last.out) = 1

-----------------------------------------------------------------------------
(* C10 *)

\* C10: a decision whose decision_type is not maintenance_decision never
\* leads to a confirmation or a simulated action; when it gets as far as the
\* dispatch on decision_type (identity, contract and version in order), the
\* run logs exactly one warning.
C10_UnknownTypeDropped ==
  (/\ last.stage = "action_executor"
   /\ last.inbound.form = "object"
   /\ last.inbound.decision_type # "maintenance_decision")
    => /\ last.out = <<>>
       /\ last.simulated = <<>>
       /\ (/\ last.inbound.payload.machine_id \notin {NoVal, ""}
           /\ last.inbound.decision_type \notin {NoVal, ""}
           /\ decision_schema(last.inbound)
           /\ last.inbound.schema_version = "1.0.0")
            => /\ CountOf(last.log, "warning") = 1
               /\ Len(last.log) = 1

\* a well-formed decision of an unknown type was dropped with one warning
C10_Witness ==
  /\ last.stage = "action_executor"
  /\ last.inbound.form = "object"
  /\ last.inbound.decision_type = "shutdown_decision"
  /\ decision_schema(last.inbound)
  /\ last.inbound.schema_version = "1.0.0"
  /\ last.log = <<"warning">>
  /\ last.out = <<>>

-----------------------------------------------------------------------------
(* C11 *)

\* a raw reading the Context Aggregator rejects: its machine_id is absent or
\* empty, or it fails the raw-reading contract
RejectedReading(body) ==
  /\ body.form = "object"
  /\ ~Truthy(body.machine_id) \/ ~raw_schema(body)

\* C11: a step in which the context processor handles a rejected raw reading
\* leaves every buffer as it was (none created, none changed), publishes
\* nothing, and checks in the order identity, contract, append: a reading
\* without machine_id is dropped before validate_message is called, a
\* reading that fails the contract is dropped right after that one call.
C11_RejectedReadingHasNoEffect ==
  [][(last'.stage = "context_processor" /\ RejectedReading(last'.inbound)) =>
       /\ DATA_BUFFERS' = DATA_BUFFERS
       /\ bus' = bus
       /\ last'.out = <<>>
       /\ last'.validated =
            IF Truthy(last'.inbound.machine_id)
            THEN <<Validation("raw_schema", last'.inbound, FALSE)>>
            ELSE <<>>]_vars

\* a reading with a machine_id that fails the contract was dropped while
\* buffers exist
C11_Witness ==
  /\ last.stage = "context_processor"
  /\ RejectedReading(last.inbound)
  /\ Truthy(last.inbound.machine_id)
  /\ last.out = <<>>
  /\ DATA_BUFFERS # <<>>

-----------------------------------------------------------------------------
(* C12 *)

WINDOWS == {WINDOW_VIBRATION, WINDOW_TEMPERATURE, WINDOW_POWER}

\* the readings of buf are in non-decreasing order of timestamp
NonDecreasing(buf) ==
  \A i \in 1..(Len(buf) - 1) : buf[i].timestamp <= buf[i + 1].timestamp

\* w is the part of buf from position k on, everything before k is D minutes
\* old or older at time t, everything from k on is younger
SuffixYoungerThan(w, buf, k, t, D) ==
  /\ w = SubSeq(buf, k, Len(buf))
  /\ \A i \in 1..(k - 1) : buf[i].timestamp <= t - D
  /\ \A i \in k..Len(buf) : buf[i].timestamp > t - D

\* C12: for every machine and every window length D of 1, 5 and 10 minutes,
\* when the machine's buffer is in non-decreasing timestamp order the window
\* computed at the current time is exactly the suffix of the buffer made of
\* the readings with timestamp > now - D, in insertion order; a reading with
\* timestamp exactly now - D is outside it, and the window may be empty.
C12_WindowIsSuffix ==
  \A m \in DOMAIN DATA_BUFFERS : \A D \in WINDOWS :
    LET buf == DATA_BUFFERS[m]
    IN  NonDecreasing(buf) =>
          \E k \in 1..(Len(buf) + 1) :
            SuffixYoungerThan(WindowOf(buf, now, D), buf, k, now, D)

\* an ordered buffer of several readings, one of them exactly D minutes old
\* and left out of a window that keeps a later one
C12_Witness ==
  \E m \in DOMAIN DATA_BUFFERS : \E D \in WINDOWS :
    LET buf == DATA_BUFFERS[m]
        w == WindowOf(buf, now, D)
    IN  /\ Len(buf) >= 2
        /\ NonDecreasing(buf)
        /\ \E i \in 1..Len(buf) : buf[i].timestamp = now - D
        /\ w # <<>>
        /\ Len(w) < Len(buf)

-----------------------------------------------------------------------------
(* C13 *)

\* the context processor was given a reading that passes its inbound checks
ReadingAccepted ==
  /\ last.stage = "context_processor"
  /\ last.inbound.form = "object"
  /\ Truthy(last.inbound.machine_id)
  /\ raw_schema(last.inbound)

\* C13: an aggregate over an empty window is the sentinel 0 and nothing is
\* raised: every accepted reading yields a published context and no error
\* record, even when the reading itself is older than a window; in that
\* context each aggregate whose window holds no reading is 0, and
\* is_anomaly_detected is false when both the temperature and the vibration
\* window are empty, whatever the values of the reading.
C13_EmptyWindowSentinel ==
  ReadingAccepted =>
    /\ last.out # <<>>
    /\ CountOf(last.log, "error") = 0
    /\ LET p == LastContext.payload
           t == LastContext.timestamp
           buf == LastBuffer
       IN  /\ Within(buf, t, WINDOW_TEMPERATURE) = {} => p.avg_temperature_c_5min = 0
           /\ Within(buf, t, WINDOW_VIBRATION) = {} => p.max_vibration_g_1min = 0
           /\ Within(buf, t, WINDOW_POWER) = {} => p.power_consumption_avg_10min = 0
           /\ (Within(buf, t, WINDOW_TEMPERATURE) = {} /\ Within(buf, t, WINDOW_VIBRATION) = {})
                => ~p.is_anomaly_detected

\* a reading above the temperature threshold arrived twelve minutes old: all
\* three windows are empty, the context is published with three zeros and
\* no anomaly
C13_Witness ==
  /\ ReadingAccepted
  /\ last.inbound.temperature_c > TEMPERATURE_THRESHOLD
  /\ last.out # <<>>
  /\ Within(LastBuffer, LastContext.timestamp, WINDOW_POWER) = {}
  /\ LastContext.payload.avg_temperature_c_5min = 0
  /\ LastContext.payload.max_vibration_g_1min = 0
  /\ LastContext.payload.power_consumption_avg_10min = 0
  /\ ~LastContext.payload.is_anomaly_detected

-----------------------------------------------------------------------------
(* C14 *)

\* the run is one in which the monitor took a context as valid
ContextTaken(run) ==
  /\ run.stage = "performance_monitor"
  /\ run.validated # <<>>
  /\ run.validated[1].schema = "context_schema"
  /\ run.validated[1].ok

\* C14: retention of the monitor's index of recent contexts: when the
\* monitor has finished handling a valid context of machine E, the index of
\* E holds no entry whose timestamp is more than 5 minutes before the
\* processing time, because the pruning loop runs on every insert.
C14_NoEntryPastHorizon ==
  [][(ContextTaken(last') /\ now' = now) =>
       LET E == last'.inbound.payload.machine_id
       IN  \A c \in DOMAIN recent_contexts'[E] :
             ~(recent_contexts'[E][c].timestamp < now' - RETENTION_MINUTES)]_vars

-----------------------------------------------------------------------------
(* C15 *)

\* C15: no per-message error ends a service: whatever payload a handler of
\* the four services was given (unparseable bytes, JSON that is not an
\* object, a missing machine_id or decision_type, a contract violation, a
\* failing predictor, a failing lookup), an exception raised in it was
\* caught in it, and every service is still running, ready for its next
\* message.
C15_NoHandlerCrashes ==
  /\ last.stage \in STAGES => ~Escapes(last)
  /\ \A stage \in STAGES : service[stage].status = "running"

\* the predictor raised inside the agent's handler, and the agent is running
C15_Witness ==
  /\ last.stage = "predictive_maintenance_agent"
  /\ RaisedIn(last) = "PredictorError"
  /\ CountOf(last.log, "error") = 1
  /\ service["predictive_maintenance_agent"].status = "running"

-----------------------------------------------------------------------------
(* C16 *)

\* C16: start-up failures are fatal and come before all message handling:
\* a service that failed to load one of its files (a contract schema, or
\* the agent's model or feature list) is aborted, has subscribed to nothing
\* and has published nothing; a service that is connecting, connected or
\* handling a message has loaded every file; so no message is handled with
\* a schema or the predictor unloaded.
C16_StartupFailureIsFatal ==
  /\ \A stage \in STAGES :
       /\ service[stage].unloaded # {} =>
            /\ service[stage].status \in {"starting", "aborted"}
            /\ service[stage].subscribed = {}
       /\ service[stage].status = "aborted" => service[stage].unloaded # {}
       /\ last.stage = stage => service[stage].unloaded = {}
  /\ (last.stage = "main" /\ last.inbound.failed > 0) =>
       service[last.inbound.stage].status = "aborted"
  /\ service["predictive_maintenance_agent"].status \in {"starting", "aborted"} =>
       retained = {} /\ bus = {}

\* the agent loaded its model and its feature list, failed on a schema and
\* is aborted, while the context processor is running
C16_Witness ==
  /\ service["predictive_maintenance_agent"].status = "aborted"
  /\ service["predictive_maintenance_agent"].unloaded = {"context_schema", "decision_schema"}
  /\ service["context_processor"].status = "running"
  /\ retained = {}

-----------------------------------------------------------------------------
(* C17 *)

\* the topic prefix each producing stage publishes under
OutboundPrefix(stage) ==
  CASE stage = "context_processor" -> PROCESSED_CONTEXT_TOPIC_PREFIX
    [] stage = "predictive_maintenance_agent" -> DECISION_TOPIC_PREFIX
    [] stage = "action_executor" -> SIMULATED_ACTION_TOPIC_PREFIX

\* the stage that consumes what a producing stage publishes
Consumer(stage) ==
  CASE stage = "context_processor" -> "predictive_maintenance_agent"
    [] stage = "predictive_maintenance_agent" -> "action_executor"
    [] stage = "action_executor" -> "performance_monitor"

\* the machine the inbound message of the last run is about
InboundEntity ==
  IF last.stage = "context_processor" THEN last.inbound.machine_id
  ELSE last.inbound.payload.machine_id

\* C17: topic routing is keyed by the machine id carried in the message:
\* every context goes to context/machine_status/<id>, every decision to
\* decision/maintenance/<id>, every confirmation to simulated_actions/<id>,
\* where <id> is payload.machine_id of the published message and equals the
\* machine id of the inbound message that triggered it; and the topic is
\* matched by a subscription of the next stage.
C17_TopicRouting ==
  /\ last.stage \in ProducingStages =>
       \A i \in DOMAIN last.out :
         LET msg == last.out[i]
         IN  /\ msg.topic.prefix = OutboundPrefix(last.stage)
             /\ msg.topic.suffix = msg.body.payload.machine_id
             /\ msg.body.payload.machine_id = InboundEntity
             /\ \E filter \in Subscriptions(Consumer(last.stage)) :
                  StartsWith(msg.topic.prefix, filter)
  /\ \A msg \in bus :
       /\ msg.topic.prefix \in {OutboundPrefix(stage) : stage \in ProducingStages}
       /\ msg.topic.suffix = msg.body.payload.machine_id

\* the agent published a decision for ROBOT001 on decision/maintenance/ROBOT001,
\* which the executor's subscription decision/# matches
C17_Witness ==
  /\ last.stage = "predictive_maintenance_agent"
  /\ last.out # <<>>
  /\ last.inbound.payload.machine_id = "ROBOT001"
  /\ last.out[1].topic.prefix = DECISION_TOPIC_PREFIX
  /\ last.out[1].topic.suffix = "ROBOT001"
  /\ DECISION_TOPIC_PREFIX \notin Subscriptions("action_executor")

-----------------------------------------------------------------------------
(* C18 *)

\* the agent was given a context that passes its inbound checks
ContextAccepted ==
  /\ last.stage = "predictive_maintenance_agent"
  /\ last.inbound.form = "object"
  /\ Truthy(last.inbound.payload.machine_id)
  /\ context_schema(last.inbound)
  /\ last.inbound.schema_version = SUPPORTED_CONTEXT_SCHEMA_VERSION

\* one context for an accepted reading, none for any other delivery
OneContextPerReading ==
  last.stage = "context_processor" =>
    IF ReadingAccepted
    THEN /\ Len(last.out) = 1
         /\ last.out[1].body.context_type = "machine_status_context"
         /\ last.out[1].body.payload.machine_id = last.inbound.machine_id
    ELSE last.out = <<>>

\* the one decision of a run carries the label of its one predictor call
OneDecisionOneLabel ==
  /\ Len(last.predicted) = 1
  /\ ~last.predicted[1].raised
  /\ Len(last.out) = 1
  /\ last.out[1].body.decision_type = "maintenance_decision"
  /\ last.out[1].body.payload.needs_maintenance = last.predicted[1].label

-----------------------------------------------------------------------------
(* C19 *)

\* m is a heartbeat of the agent on agent/discovery/heartbeat: online, with
\* the (type, version) pairs it consumes and produces
AgentHeartbeat(m) ==
  /\ m.topic.prefix = AGENT_DISCOVERY_TOPIC
  /\ m.body.agent_id = DECISION_AGENT_ID
  /\ m.body.status = "online"
  /\ m.body.capabilities.consumes_context_types =
       {[type |-> "machine_status_context", schema_version |-> "1.0.0"]}
  /\ m.body.capabilities.produces_decision_types =
       {[type |-> "maintenance_decision", schema_version |-> "1.0.0"]}

\* the step is an on_connect of the agent with return code rc
AgentConnected(run, rc) ==
  /\ run.stage = "on_connect"
  /\ run.inbound.stage = "predictive_maintenance_agent"
  /\ run.inbound.rc = rc

\* C19: on every successful connect the agent subscribes to the context
\* topics and publishes one heartbeat, online and with its capabilities,
\* which becomes the retained message of agent/discovery/heartbeat; on a
\* failed connect it subscribes to nothing, publishes nothing and leaves
\* the retained message as it was; and while a heartbeat is retained, a
\* monitor that has subscribed, however late, can be given it.
C19_HeartbeatOnConnect ==
  /\ [][/\ AgentConnected(last', 0) =>
             /\ service'["predictive_maintenance_agent"].subscribed =
                  {PROCESSED_CONTEXT_TOPIC_PREFIX}
             /\ Len(last'.out) = 1
             /\ AgentHeartbeat(last'.out[1])
             /\ retained' = {last'.out[1]}
        /\ (\E rc \in {5} : AgentConnected(last', rc)) =>
             /\ service'["predictive_maintenance_agent"].subscribed = {}
             /\ last'.out = <<>>
             /\ retained' = retained]_vars
  /\ [](/\ Cardinality(retained) <= 1
        /\ \A m \in retained : AgentHeartbeat(m)
        /\ (retained # {} /\ service["performance_monitor"].status = "running")
             => ENABLED HeartbeatStep)

\* the monitor has just subscribed, after the agent's heartbeat was
\* published, and the broker has the heartbeat for it
C19_Witness ==
  /\ last.stage = "on_connect"
  /\ last.inbound.stage = "performance_monitor"
  /\ last.inbound.rc = 0
  /\ AGENT_DISCOVERY_TOPIC \in service["performance_monitor"].subscribed
  /\ \E m \in retained : AgentHeartbeat(m)
  /\ ENABLED HeartbeatStep

-----------------------------------------------------------------------------
(* C20 *)

\* C20 (as stated): in every reachable state each machine's buffer is in
\* non-decreasing order of reading timestamp, whatever sequence of accepted
\* readings the bus delivers.
C20_BuffersOrdered ==
  \A m \in DOMAIN DATA_BUFFERS : NonDecreasing(DATA_BUFFERS[m])

\* C20 (amended): each machine's buffer is in arrival order: a step that
\* handles an accepted reading puts it at the end of its machine's buffer
\* (dropping the oldest entry of a full one) and leaves the other buffers
\* alone; so the buffer afterwards is in non-decreasing timestamp order
\* exactly when it was before and the reading is not older than the last
\* one buffered.
C20_BuffersInArrivalOrder ==
  [][(ReadingAccepted' /\ nextId' # nextId) =>
       LET m == last'.inbound.machine_id
           old == IF m \in DOMAIN DATA_BUFFERS THEN DATA_BUFFERS[m] ELSE <<>>
           new == DATA_BUFFERS'[m]
       IN  /\ new = IF Len(old) < BUFFER_MAXLEN
                    THEN Append(old, last'.inbound)
                    ELSE Append(Tail(old), last'.inbound)
           /\ \A other \in DOMAIN DATA_BUFFERS' \ {m} :
                other \in DOMAIN DATA_BUFFERS /\ DATA_BUFFERS'[other] = DATA_BUFFERS[other]
           /\ NonDecreasing(new) <=>
                /\ NonDecreasing(old)
                /\ old # <<>> => old[Len(old)].timestamp <= last'.inbound.timestamp]_vars

\* a reading older than the one before it was accepted and stands at the
\* end of the buffer, which is now out of timestamp order
C20_Witness ==
  /\ ReadingAccepted
  /\ Len(LastBuffer) >= 2
  /\ LastBuffer[Len(LastBuffer)] = last.inbound
  /\ LastBuffer[Len(LastBuffer)].timestamp < LastBuffer[Len(LastBuffer) - 1].timestamp
  /\ ~NonDecreasing(LastBuffer)

-----------------------------------------------------------------------------
(* C21 *)

\* the last k entries of s, or all of s when it has fewer
MostRecent(s, k) ==
  IF Len(s) <= k THEN s ELSE SubSeq(s, Len(s) - k + 1, Len(s))

-----------------------------------------------------------------------------
(* C22 *)

\* the buffers with every machine but m forgotten
OnlyBufferOf(buffers, m) == [k \in DOMAIN buffers \cap {m} |-> buffers[k]]

\* C22: a step that handles an accepted reading of machine A leaves the
\* buffer of every other machine as it was and publishes the context the
\* handler would have built had A's buffer been the only one, at the same
\* clock reading; A's buffer exists afterwards, no buffer exists that did
\* not exist before except A's, no step of any service removes a buffer,
\* and a step that accepts no reading creates none.
C22_PerEntityIsolation ==
  [][/\ DOMAIN DATA_BUFFERS \subseteq DOMAIN DATA_BUFFERS'
     /\ (ReadingAccepted' /\ nextId' # nextId) =>
          LET A == last'.inbound.machine_id
          IN  /\ DOMAIN DATA_BUFFERS' = DOMAIN DATA_BUFFERS \cup {A}
              /\ \A other \in DOMAIN DATA_BUFFERS \ {A} :
                   DATA_BUFFERS'[other] = DATA_BUFFERS[other]
              /\ Len(last'.out) = 1
              /\ \E tie \in {0, 1} :
                   LET alone == process_raw_data(OnlyBufferOf(DATA_BUFFERS, A), A,
                                                 last'.inbound, now, nextId, tie)
                   IN  /\ last'.out[1].body = alone.context_message
                       /\ DATA_BUFFERS'[A] = alone.buffers[A]
     /\ ~(ReadingAccepted' /\ nextId' # nextId) =>
          DOMAIN DATA_BUFFERS' = DOMAIN DATA_BUFFERS]_vars

\* CNC001's first reading was handled while ROBOT001's hot, shaking readings
\* were buffered: CNC001's buffer was created with that one reading, the
\* context shows CNC001's own 35.5 degrees and no anomaly, and ROBOT001's
\* buffer is as long as the number of its contexts
C22_Witness ==
  /\ ReadingAccepted
  /\ last.inbound.machine_id = "CNC001"
  /\ "ROBOT001" \in DOMAIN DATA_BUFFERS
  /\ Len(DATA_BUFFERS["ROBOT001"]) = 2
  /\ DATA_BUFFERS["CNC001"] = <<last.inbound>>
  /\ ContextPublished
  /\ LastContext.payload.avg_temperature_c_5min = 3550
  /\ ~LastContext.payload.is_anomaly_detected

-----------------------------------------------------------------------------
(* C23 *)

\* the contexts published for machine m
ContextsOf(m) ==
  {c \in Published(PROCESSED_CONTEXT_TOPIC_PREFIX) : c.body.payload.machine_id = m}

\* the threads that have appended their reading of machine m and have not
\* yet published its context
Appended(m) ==
  {th \in LoopThreads :
     callbacks[th].pc = "aggregate" /\ callbacks[th].data.machine_id = m}

-----------------------------------------------------------------------------
(* C24 *)

\* C24: nothing is published out of the blue. Every step that puts a message
\* on the bus is a handler run that was given its cause: a confirmation
\* carrying decision_id d appears only in a run of the executor that was
\* handed a decision with decision_id d, a decision for machine E only in a
\* run of the agent that was handed a context for E, and a context for E
\* only in a run of the context processor that was handed a raw reading of
\* E; so each published message is preceded by the delivery of its cause.
C24_CausalOrder ==
  [][\A m \in bus' \ bus :
       /\ m \in Range(last'.out)
       /\ last'.inbound.form = "object"
       /\ m.topic.prefix = SIMULATED_ACTION_TOPIC_PREFIX =>
            /\ last'.stage = "action_executor"
            /\ last'.inbound.decision_type = "maintenance_decision"
            /\ last'.inbound.decision_id = m.body.payload.decision_id
       /\ m.topic.prefix = DECISION_TOPIC_PREFIX =>
            /\ last'.stage = "predictive_maintenance_agent"
            /\ last'.inbound.context_type # NoVal
            /\ last'.inbound.payload.machine_id = m.body.payload.machine_id
       /\ m.topic.prefix = PROCESSED_CONTEXT_TOPIC_PREFIX =>
            /\ last'.stage = "context_processor"
            /\ last'.inbound.machine_id = m.body.payload.machine_id
       /\ m.topic.prefix \in {SIMULATED_ACTION_TOPIC_PREFIX, DECISION_TOPIC_PREFIX,
                              PROCESSED_CONTEXT_TOPIC_PREFIX}]_vars

\* a whole chain is on the bus: the confirmation just published names a
\* decision the agent published, for a machine whose context the processor
\* published
C24_Witness ==
  /\ last.stage = "action_executor"
  /\ Len(last.out) = 1
  /\ \E d \in Published(DECISION_TOPIC_PREFIX), c \in Published(PROCESSED_CONTEXT_TOPIC_PREFIX) :
       /\ d.body = last.inbound
       /\ d.body.decision_id = last.out[1].body.payload.decision_id
       /\ d.body.source_agent_id = DECISION_AGENT_ID
       /\ c.body.payload.machine_id = d.body.payload.machine_id
       /\ c.body.payload.machine_id = last.out[1].body.payload.machine_id

-----------------------------------------------------------------------------
(* C25 *)

\* the number of readings of machine E buffered so far
Buffered(E) == IF E \in DOMAIN DATA_BUFFERS THEN Len(DATA_BUFFERS[E]) ELSE 0

\* the messages published under prefix for machine E
PublishedFor(prefix, E) == {m \in Published(prefix) : m.body.payload.machine_id = E}

\* a reading of machine E that passes the raw contract is queued for the
\* context processor
ReadingQueued(E) ==
  \E m \in inbox["context_processor"] :
    /\ m.body.form = "object"
    /\ m.body.machine_id = E
    /\ raw_schema(m.body)

\* the monitor has just been handed a confirmation for machine E that the
\* executor published
ConfirmationReceived(E) ==
  /\ last.stage = "performance_monitor"
  /\ last.inbound.form = "object"
  /\ last.inbound.source_agent_id = ACTION_AGENT_ID
  /\ last.inbound.payload.machine_id = E
  /\ last.validated = <<Validation("action_confirmation_schema", last.inbound, TRUE)>>

\* every reading of machine E handed over so far has its context, its
\* decision and its confirmation, none is waiting, and the monitor has just
\* been handed a confirmation for E
Settled(E) ==
  /\ ~ReadingQueued(E)
  /\ Buffered(E) >= 1
  /\ Cardinality(PublishedFor(PROCESSED_CONTEXT_TOPIC_PREFIX, E)) >= Buffered(E)
  /\ Cardinality(PublishedFor(DECISION_TOPIC_PREFIX, E)) >= Buffered(E)
  /\ Cardinality(PublishedFor(SIMULATED_ACTION_TOPIC_PREFIX, E)) >= Buffered(E)
  /\ ConfirmationReceived(E)

-----------------------------------------------------------------------------
(* C26 *)

\* the feature names of features.json
FEATURE_NAMES ==
  {"avg_temperature_c_5min", "max_vibration_g_1min", "power_consumption_avg_10min"}

\* C26: a decision the agent publishes comes from exactly one call of the
\* predictor, made on the three feature values of the payload of the context
\* it was handed; payload.needs_maintenance is the label that call returned,
\* metadata.priority is "high" when the label is true and "normal" when it
\* is false, and payload.predicted_features has exactly the three feature
\* names as keys, each with the value of the context's payload.
C26_DecisionReflectsPrediction ==
  (last.stage = "predictive_maintenance_agent" /\ last.out # <<>>) =>
    LET decision == last.out[1].body
        context_payload == last.inbound.payload
    IN  /\ Len(last.predicted) = 1
        /\ ~last.predicted[1].raised
        /\ DOMAIN last.predicted[1].input = FEATURE_NAMES
        /\ \A k \in FEATURE_NAMES : last.predicted[1].input[k] = context_payload[k]
        /\ decision.payload.needs_maintenance = last.predicted[1].label
        /\ decision.metadata.priority = "high" <=> last.predicted[1].label
        /\ decision.metadata.priority \in {"high", "normal"}
        /\ DOMAIN decision.payload.predicted_features = FEATURE_NAMES
        /\ \A k \in FEATURE_NAMES :
             decision.payload.predicted_features[k] = context_payload[k]
        /\ decision.payload.machine_id = context_payload.machine_id

\* the predictor said no to the anomalous context of ROBOT001 (75.5 degrees,
\* 3.1 g): the decision is of normal priority and carries those values
C26_Witness ==
  /\ last.stage = "predictive_maintenance_agent"
  /\ Len(last.out) = 1
  /\ last.inbound.source_agent_id = CONTEXT_AGENT_ID
  /\ last.inbound.payload.is_anomaly_detected
  /\ ~last.predicted[1].label
  /\ ~last.out[1].body.payload.needs_maintenance
  /\ last.out[1].body.metadata.priority = "normal"
  /\ last.out[1].body.payload.predicted_features.avg_temperature_c_5min = 7550
  /\ last.out[1].body.payload.predicted_features.max_vibration_g_1min = 310

-----------------------------------------------------------------------------
(* C27 *)

\* C27: the heartbeat is gated like every other message: a run of the
\* agent publishes a heartbeat on agent/discovery/heartbeat only after that
\* very message passed validate_message against the heartbeat contract in
\* the same run.
C27_HeartbeatValidatedBeforePublish ==
  \A i \in DOMAIN last.out :
    last.out[i].topic.prefix = AGENT_DISCOVERY_TOPIC =>
      \E j \in DOMAIN last.validated :
        last.validated[j] = Validation("agent_heartbeat_schema", last.out[i].body, TRUE)

-----------------------------------------------------------------------------
(* C28 *)

\* the last run was given bytes that json.loads rejects
ParseFailed == last.stage \in STAGES /\ last.inbound.form = "garbage"

\* the last run was given a JSON object that fails the inbound contract of
\* its service, or whose schema_version the agent or the executor refuses
InboundViolation ==
  /\ last.stage \in STAGES
  /\ last.inbound.form = "object"
  /\ last.validated # <<>>
  /\ \/ ~last.validated[1].ok
     \/ /\ last.stage = "predictive_maintenance_agent"
        /\ last.inbound.schema_version # SUPPORTED_CONTEXT_SCHEMA_VERSION
     \/ /\ last.stage = "action_executor"
        /\ last.inbound.schema_version # SUPPORTED_DECISION_SCHEMA_VERSION

\* messages a stage could hand to its outbound gate, by contract
GateCandidates(schema) ==
  {b \in (CASE schema = "context_schema" -> ForeignContexts
            [] schema = "decision_schema" -> ForeignDecisions
            [] schema = "action_confirmation_schema" -> ForeignConfirmations) :
     b.form = "object"}

\* every record of the log is of the given level, and there is one
OnlyLevel(log, level) == log # <<>> /\ \A i \in DOMAIN log : log[i] = level

\* C28 (as stated): an unparseable inbound payload is dropped with no state
\* change and no publish and is logged at warning level; an inbound contract
\* or version violation is logged at warning level only.
C28_SeveritiesAsStated ==
  /\ ParseFailed => last.out = <<>> /\ OnlyLevel(last.log, "warning")
  /\ InboundViolation => last.out = <<>> /\ OnlyLevel(last.log, "warning")

\* C28 (amended): an unparseable inbound payload is dropped with no state
\* change and no publish, before any validation, and is logged at error
\* level (one record); an inbound contract violation, or a version mismatch
\* at the agent or the executor, is dropped with warning-level records only;
\* a message that fails its stage's outbound contract is not published and
\* the run logs an error-level record.
C28_Severities ==
  /\ [](/\ ParseFailed =>
             /\ last.out = <<>>
             /\ last.validated = <<>>
             /\ last.predicted = <<>>
             /\ last.simulated = <<>>
             /\ last.log = <<"error">>
        /\ InboundViolation => last.out = <<>> /\ OnlyLevel(last.log, "warning")
        /\ \A stage \in ProducingStages :
             /\ (last.stage = stage /\ Len(last.validated) = 2
                   /\ FailedInLastRun(OutboundSchema(stage)))
                  => ("error" \in Range(last.log) /\ last.out = <<>>)
             /\ \A m \in GateCandidates(OutboundSchema(stage)) :
                  ~validate_message(m, OutboundSchema(stage)) =>
                    LET g == OutboundGate(Topic(OutboundPrefix(stage), "CNC001"), m,
                                          OutboundSchema(stage))
                    IN  /\ g.out = <<>>
                        /\ "error" \in Range(g.log)
                        /\ g.validated = <<Validation(OutboundSchema(stage), m, FALSE)>>)
  /\ [][ParseFailed' =>
          /\ DATA_BUFFERS' = DATA_BUFFERS
          /\ recent_contexts' = recent_contexts
          /\ bus' = bus
          /\ nextId' = nextId]_vars

\* the executor was given unparseable bytes after the agent had published a
\* decision: one error record, nothing validated, nothing published
C28_Witness ==
  /\ ParseFailed
  /\ last.stage = "action_executor"
  /\ last.log = <<"error">>
  /\ last.out = <<>>
  /\ bus # {}
  /\ \E stage \in ProducingStages :
       \E m \in GateCandidates(OutboundSchema(stage)) :
         ~validate_message(m, OutboundSchema(stage))

-----------------------------------------------------------------------------
(* C29 *)

\* the anomaly predicate evaluated on the values a context payload carries
PayloadPredicate(payload) ==
  \/ payload.avg_temperature_c_5min > 7000
  \/ payload.max_vibration_g_1min > 300

-----------------------------------------------------------------------------
(* C30 *)

\* the last run took a reading that passes the inbound checks and published
\* nothing
PostAppendDrop == ReadingAccepted /\ last.out = <<>>

-----------------------------------------------------------------------------
(* C31 *)

\* the first of the agent's three checks that a context document fails
FirstFailedCheck(c) ==
  IF ~Truthy(c.payload.machine_id) THEN "entity_id"
  ELSE IF ~context_schema(c) THEN "contract"
  ELSE IF c.schema_version # SUPPORTED_CONTEXT_SCHEMA_VERSION THEN "version"
  ELSE "none"

\* the agent's last run was on a context document
AgentRanOnContext ==
  /\ last.stage = "predictive_maintenance_agent"
  /\ last.inbound.form = "object"

\* C31: the Decision Router checks a context in this order: a non-empty entity
\* id, then the context contract, then an exact schema_version match.  The
\* predictor is called only for a context that passed all three; a context
\* that fails one is stopped at the first check it fails (an empty entity id
\* before the contract is consulted, a contract failure whatever the version,
\* a version mismatch only after the contract passed), the predictor is not
\* called and no decision is published
C31_GateOrdering ==
  /\ [](AgentRanOnContext =>
          LET c == last.inbound
              failed == FirstFailedCheck(c)
          IN  /\ last.predicted # <<>> => failed = "none"
              /\ failed # "none" => last.predicted = <<>> /\ last.out = <<>>
              /\ failed = "entity_id" => last.validated = <<>>
              /\ failed = "contract" =>
                   last.validated = <<Validation("context_schema", c, FALSE)>>
              /\ failed = "version" =>
                   last.validated = <<Validation("context_schema", c, TRUE)>>
              /\ failed = "none" =>
                   /\ Len(last.predicted) = 1
                   /\ last.validated[1] = Validation("context_schema", c, TRUE))
  /\ [][(/\ last'.stage = "predictive_maintenance_agent"
         /\ last'.predicted = <<>>) =>
          (bus' = bus /\ nextId' = nextId)]_vars

\* a context of the processor passed the three checks and got its decision;
\* now a document that fails all three has been stopped at the entity id,
\* with the contract not consulted and the predictor not called
C31_Witness ==
  /\ AgentRanOnContext
  /\ FirstFailedCheck(last.inbound) = "entity_id"
  /\ ~context_schema(last.inbound)
  /\ last.inbound.schema_version # SUPPORTED_CONTEXT_SCHEMA_VERSION
  /\ last.validated = <<>>
  /\ last.predicted = <<>>
  /\ Published(DECISION_TOPIC_PREFIX) # {}
  /\ Published(DECISION_TOPIC_PREFIX) \subseteq
       {m \in bus : m.body.source_agent_id = DECISION_AGENT_ID}

====
